---- MODULE Spec2Model ----
(***************************************************************************)
(* WanderMind client: the map page (frontend/src/app/map/page.tsx), the    *)
(* dashboard, the home page, the chat panel, the map component's render,   *)
(* the auth provider and the API client, as a state machine.  React state  *)
(* is the model's state; every handler is one action up to its first       *)
(* await, every awaited response is one action (the continuation), and     *)
(* the render that follows a state change is the action Render.  The       *)
(* backend is not part of the sources: the session store, the gateways,    *)
(* the plan store and the login follow the specification (sections 3, 4    *)
(* and 6).                                                                 *)
(***************************************************************************)
EXTENDS Integers, Sequences, FiniteSets, Bags, TLC

VARIABLES
    lsSession,                 \* localStorage 'wandermind_session' (None or Some(session))
    lsToken,                   \* localStorage 'wandermind_token'
    lsUser,                    \* localStorage 'wandermind_user'
    user, token,               \* AuthProvider state
    authMounted,               \* the AuthProvider mount effect has run
    page,                      \* "map" while MapPage is mounted, "onboard" after the redirect
    redirecting,               \* router.push('/onboard') was called, navigation pending
    effectDue,                 \* MapPage's effect must run (mount, or user/token changed)
    rendered,                  \* the state has been rendered since the last change
    session, attractions, route, messages,
    isLoading, isLoadingRecommendations, isSavingPlan, isViewingsavedPlan,
    showChat, showTimeline,
    net,                       \* bag of requests awaiting their response
    planStore,                 \* the server's plan store
    plans, plansLoading, plansError,   \* Dashboard's plans, isLoading and error
    form,                      \* OnboardPage's state: the fields, isLoading and error
    sessionStore,              \* the server's session store
    modal,                     \* AuthModal's state: error and isLoading
    userStore,                 \* the server's user store: the registered users
    userInterests,             \* user.interests of AuthProvider's user ({} without user)
    lsUserInterests,           \* the interests of the user in 'wandermind_user'
    userPrefs,                 \* the server's user store: the interests of each user
    last                       \* the last step: its name and its argument

vars == << lsSession, lsToken, lsUser, user, token, authMounted, page, redirecting,
           effectDue, rendered, session, attractions, route, messages, isLoading,
           isLoadingRecommendations, isSavingPlan, isViewingsavedPlan, showChat,
           showTimeline, net, planStore, plans, plansLoading, plansError, form,
           sessionStore, modal, userStore, userInterests, lsUserInterests,
           userPrefs, last >>

authVars == << lsSession, lsToken, lsUser, user, token, authMounted >>
flowVars == << page, redirecting, effectDue >>
dashVars == << plans, plansLoading, plansError >>
pageVars == << session, attractions, route, messages, isLoading, isLoadingRecommendations,
              isSavingPlan, isViewingsavedPlan, showChat, showTimeline >>
onboardVars == << form, sessionStore >>
\* the state that belongs to neither MapPage, Dashboard, Home nor AuthProvider
prefVars == << userInterests, lsUserInterests, userPrefs >>
sideVars == << onboardVars, modal, userStore, prefVars >>

-----------------------------------------------------------------------------
(* Bounds of the model *)

MaxMsgs == 6          \* chat messages kept in a run
MaxPlans == 2         \* plans the server's store holds in a run
MaxStops == 2         \* stops of a route the external model emits
MaxDeletes == 2       \* delete requests awaiting their response
MaxSessions == 2      \* sessions created in a run
MaxDetail == 2        \* entries of the detail list of an error response
MaxPrefRequests == 2  \* preference updates awaiting their response
MaxShown == 3         \* attractions of a list the markers are drawn for
MaxDrawn == 4         \* stops of a route MapComponent is given

-----------------------------------------------------------------------------
(* Values *)

None == << >>
Some(x) == << x >>
IsSome(o) == o # None
Get(o) == o[1]

\* what the onboarding form is given: a city (or none), the days yesterday
\* (0), today (1) and tomorrow (2), and tags of popularInterests; the selected
\* tags are kept as a set, their order plays no role
Cities == {"", "Paris"}
Today == 1
Dates == {0, 1, 2}
InterestTags == {"Museums"}

\* useState initial values of OnboardPage
FormEmpty ==
    [city |-> "", startDate |-> None, endDate |-> None, selectedInterests |-> {},
     isLoading |-> FALSE, error |-> ""]

\* useState initial values of AuthModal; a text the page composes is kept as
\* the sequence of the pieces it is concatenated from ('' is the empty one)
ModalEmpty == [error |-> << >>, isLoading |-> FALSE]

\* what the signup form is given: the length of the password and the name
MinPasswordLength == 6
PasswordLengths == {5, 6}
Names == {"", " ", "Ann"}
\* String.prototype.trim
Trim(n) == IF n = " " THEN "" ELSE n

\* the entries of the detail list of a 422 response: loc and msg
ErrorLocs == {<< >>, <<"body">>, <<"body", "email">>, <<"body", "">>, <<"", "">>}
ErrorEntries == {[loc |-> l, msg |-> "invalid"] : l \in ErrorLocs}
RECURSIVE SeqsUpTo(_, _)
SeqsUpTo(S, n) ==
    IF n = 0 THEN {<< >>}
    ELSE LET shorter == SeqsUpTo(S, n - 1)
         IN  shorter \cup {Append(q, x) : q \in shorter, x \in S}

\* error.response?.data?.detail: absent, a string or a list
ErrorDetails ==
    {[kind |-> "none", str |-> "", list |-> << >>]}
        \cup {[kind |-> "str", str |-> t, list |-> << >>] :
                 t \in {"", "Incorrect email or password"}}
        \cup {[kind |-> "list", str |-> "", list |-> l] :
                 l \in SeqsUpTo(ErrorEntries, MaxDetail)}

\* the errors api.login and api.signup reject with: detail and error.message
AuthErrors == {[detail |-> d, message |-> m] : d \in ErrorDetails, m \in {"", "Network Error"}}
\* a request that failed without a response
NoResponse ==
    [detail |-> [kind |-> "none", str |-> "", list |-> << >>], message |-> "Network Error"]

Users == {"A", "B"}
\* who signs up in a run
Newcomers == {"C"}
TokenOf(u) == IF u = "A" THEN "tA" ELSE IF u = "B" THEN "tB" ELSE "tC"
Tokens == {TokenOf(u) : u \in Users}

\* RouteStop of src/unnamed/part_005 (the embedded attraction kept by its
\* id): the stops the external model composes its routes from
StopPool ==
    { [att |-> 1, day |-> 1, order |-> 1, startTime |-> 2],
      [att |-> 2, day |-> 1, order |-> 2, startTime |-> 1],
      [att |-> 2, day |-> 1, order |-> 2, startTime |-> 2],
      [att |-> 3, day |-> 2, order |-> 1, startTime |-> 1] }

Summaries == {"s1"}

Injective(q) == \A i, j \in DOMAIN q : i # j => q[i] # q[j]

\* TravelRoute (totalDuration is an aggregate no handler reads): what the
\* external model can emit, whether the gateway accepts it or not
RawRoutes ==
    { [stops |-> q, summary |-> m] :
        q \in { x \in UNION {[1..n -> StopPool] : n \in 2..MaxStops} : Injective(x) },
        m \in Summaries }

\* the two chat texts of the model: one with no keyword, one holding the
\* keywords 'change' and 'how long'
UserTexts == {"swap day 1 and day 2", "how long is the change"}
Includes(text, kw) ==
    /\ text = "how long is the change"
    /\ kw \in {"change", "how long"}

Msg(role, content) == [role |-> role, content |-> content]

-----------------------------------------------------------------------------
(* The backend, modelled from the specification *)

\* section 3, RouteStop: order is unique within a day
ShapeOk(r) ==
    \A i, j \in DOMAIN r.stops :
        (i # j /\ r.stops[i].day = r.stops[j].day) => r.stops[i].order # r.stops[j].order

\* section 3, RouteStop: per day, stops sorted by order have non-decreasing startTime
TimeOrdered(r) ==
    \A i, j \in DOMAIN r.stops :
        (r.stops[i].day = r.stops[j].day /\ r.stops[i].order < r.stops[j].order)
            => r.stops[i].startTime <= r.stops[j].startTime

\* a gateway that checks the shape of the model's output only
GatewayAcceptsShapeOnly(r) == ShapeOk(r)

\* sections 4.3 and 4.4: the gateway validates the model's output before
\* returning it and rejects it with UpstreamError otherwise
GatewayAccepts(r) == ShapeOk(r) /\ TimeOrdered(r)

\* what POST /api/route and POST /api/refine can answer with status 200
GatewayReplies == {r \in RawRoutes : GatewayAccepts(r)}

\* section 6: a bearer token maps back to exactly one user
UserOfToken(t) == CHOOSE u \in Users \cup Newcomers : TokenOf(u) = t

PlanIds == 1..MaxPlans

\* section 4.5 savePlan: a new plan owned by the token's user
ServerSavePlan(store, t, r) ==
    LET id == CHOOSE i \in PlanIds : \A p \in store : p.id # i
    IN  store \cup {[id |-> id, owner |-> UserOfToken(t), route |-> r]}

\* section 4.5 listPlans: scoped to the authenticated user
ServerListPlans(store, t) == {p \in store : p.owner = UserOfToken(t)}

\* section 4.5 getPlan / deletePlan: the plans the token's user may fetch or delete
ServerOwnedPlan(store, id, t) == {p \in store : p.id = id /\ p.owner = UserOfToken(t)}

\* section 4.1: the sessions the store holds; get(id) fails with NotFoundError
\* for any other id, a plan's id included
ServerSessions == {x.id : x \in sessionStore}

\* the session the store holds before the run: the one a stored
\* 'wandermind_session' names
SeedSession ==
    [id |-> 0, city |-> "Paris", startDate |-> Today, endDate |-> Today,
     interests |-> InterestTags]

\* section 4.1 create: city non-empty, startDate <= endDate, interests non-empty
SessionValid(d) == d.city # "" /\ d.startDate <= d.endDate /\ d.interests # {}

\* the ids the store hands out: none of them is a plan's id
SessionIds == {0} \cup {10 + i : i \in 1..MaxSessions}

\* section 4.1 create, with the id of every session always the first id in use
ServerCreateSessionReusesId(store, d) ==
    store \cup {[id |-> 0, city |-> d.city, startDate |-> d.startDate,
                 endDate |-> d.endDate, interests |-> d.interests]}

\* section 4.1 create: assigns a fresh unique id and stores the session
ServerCreateSession(store, d) ==
    LET id == CHOOSE i \in SessionIds : \A x \in store : x.id # i
    IN  store \cup {[id |-> id, city |-> d.city, startDate |-> d.startDate,
                     endDate |-> d.endDate, interests |-> d.interests]}

\* what POST /api/recommend can answer: lists of attractions (by id)
RecommendOutputs == {<< 1, 2 >>}

\* the route of the plan user A saved before the page is opened
SeedRoute ==
    [stops |-> << [att |-> 1, day |-> 1, order |-> 1, startTime |-> 2],
                  [att |-> 3, day |-> 2, order |-> 1, startTime |-> 1] >>,
     summary |-> "s1"]

-----------------------------------------------------------------------------
(* Pure helpers of the client *)

\* Array.prototype.sort((a, b) => a.order - b.order): a stable sort by order
RECURSIVE InsertByOrder(_, _)
InsertByOrder(s, x) ==
    IF s = << >> THEN << x >>
    ELSE IF s[Len(s)].order <= x.order THEN Append(s, x)
    ELSE Append(InsertByOrder(SubSeq(s, 1, Len(s) - 1), x), s[Len(s)])

RECURSIVE SortByOrder(_)
SortByOrder(s) ==
    IF s = << >> THEN << >>
    ELSE InsertByOrder(SortByOrder(SubSeq(s, 1, Len(s) - 1)), s[Len(s)])

\* MapComponent's routePositions sorts the array it is given in place; the
\* array is route.stops of the page's state
MapComponentRender(r) == [r EXCEPT !.stops = SortByOrder(r.stops)]

\* attraction.coordinates is optional: attraction 4 has none, the others are
\* at the point named by their id
Coordinates(att) == IF att = 4 THEN None ELSE Some(att)

\* MapComponent's routePositions: the stops sorted by order in place, mapped
\* to their attraction's coordinates, those without coordinates dropped
routePositions(stops) ==
    LET sorted == SortByOrder(stops)
        coords == [i \in 1..Len(sorted) |-> Coordinates(sorted[i].att)]
        given == SelectSeq(coords, LAMBDA c : c # None)
    IN  [i \in 1..Len(given) |-> Get(given[i])]

\* attractions.filter((a) => a.selected)
Selected(atts) == SelectSeq(atts, LAMBDA a : a.selected)

\* the canned reply of the saved-plan view to a chat text
SavedPlanReply(text) ==
    IF Includes(text, "change") \/ Includes(text, "modify") \/ Includes(text, "edit")
        THEN "saved:cannot-modify"
    ELSE IF Includes(text, "time") \/ Includes(text, "duration") \/ Includes(text, "how long")
        THEN "saved:timing"
    ELSE IF Includes(text, "cost") \/ Includes(text, "price") \/ Includes(text, "budget")
        THEN "saved:costs"
    ELSE IF Includes(text, "restaurant") \/ Includes(text, "food") \/ Includes(text, "eat")
        THEN "saved:dining"
    ELSE IF Includes(text, "hotel") \/ Includes(text, "accommodation") \/ Includes(text, "stay")
        THEN "saved:hotels"
    ELSE "saved:overview"

\* the API client: one request record per axios call
Req(kind, sid, atts, text, r, t) ==
    [kind |-> kind, sid |-> sid, atts |-> atts, text |-> text, route |-> r, token |-> t,
     seen |-> {}]

ApiGetRecommendations(sid) == Req("recommend", sid, << >>, "", None, None)
ApiGenerateRoute(sid, sel) == Req("route", sid, sel, "", None, None)
ApiRefineRoute(sid, text, r) == Req("refine", sid, << >>, text, Some(r), None)
\* a save request that carries the first stop of the route only
ApiSavePlanFirstStop(sid, r, t) ==
    Req("save", sid, << >>, "", Some([r EXCEPT !.stops = SubSeq(r.stops, 1, 1)]), Some(t))
ApiSavePlan(sid, r, t) == Req("save", sid, << >>, "", Some(r), Some(t))
ApiGetPlanById(id, t) == Req("plan", id, << >>, "", None, Some(t))

Send(r) == net (+) SetToBag({r})
Done(r) == net (-) SetToBag({r})
InFlight(kind) == {r \in BagToSet(net) : r.kind = kind}

RECURSIVE Copies(_)
Copies(S) ==
    IF S = {} THEN 0
    ELSE LET r == CHOOSE x \in S : TRUE IN CopiesIn(r, net) + Copies(S \ {r})

\* requests whose continuation appends one chat message
PendingAppends == Copies({r \in BagToSet(net) : r.kind \in {"route", "refine", "save"}})
Room(n) == Len(messages) + PendingAppends + n <= MaxMsgs

\* the name and the argument of a step, kept in last
Step(op, arg) == last' = [op |-> op, arg |-> arg]

-----------------------------------------------------------------------------
(* Initial states: the page is about to mount *)

\* what localStorage may hold under 'wandermind_session': a session of
\* /api/init (id 0), or a saved plan's id marked isSavedPlan
StoredSessions ==
    { [sessionId |-> 0, isSavedPlan |-> FALSE],
      [sessionId |-> 1, isSavedPlan |-> TRUE] }

Init ==
    /\ lsSession \in {None} \cup {Some(x) : x \in StoredSessions}
    /\ \E u \in {None} \cup {Some(x) : x \in Users} :
          /\ lsUser = u
          /\ lsToken = IF u = None THEN None ELSE Some(TokenOf(Get(u)))
    \* the provider is already mounted after a client-side navigation and
    \* mounts together with the page after a full load
    /\ authMounted \in BOOLEAN
    /\ user = IF authMounted THEN lsUser ELSE None
    /\ token = IF authMounted THEN lsToken ELSE None
    /\ page = "map"
    /\ redirecting = FALSE
    /\ effectDue = TRUE
    /\ rendered = TRUE
    /\ session = None
    /\ attractions = << >>
    /\ route = None
    /\ messages = << >>
    /\ isLoading = FALSE
    /\ isLoadingRecommendations = TRUE
    /\ isSavingPlan = FALSE
    /\ isViewingsavedPlan = FALSE
    /\ showChat = TRUE
    /\ showTimeline = FALSE
    /\ net = EmptyBag
    /\ planStore = {[id |-> 1, owner |-> "A", route |-> SeedRoute]}
    /\ form = FormEmpty
    /\ sessionStore = {SeedSession}
    /\ modal = ModalEmpty
    /\ userStore = Users
    /\ userInterests = {}
    /\ lsUserInterests = {}
    /\ userPrefs = [u \in Users \cup Newcomers |-> {}]
    /\ plans = {}
    /\ plansLoading = TRUE
    /\ plansError = ""
    /\ last = [op |-> "init", arg |-> None]

-----------------------------------------------------------------------------
(* Mounting *)

Mounted == page = "map"

\* events and responses are handled once the render and the effects are done
Idle == Mounted /\ rendered /\ ~effectDue /\ authMounted

\* loadRecommendations up to its await
loadRecommendations(sid) ==
    /\ isLoadingRecommendations' = TRUE
    /\ net' = Send(ApiGetRecommendations(sid))

\* loadSessionData up to its first await
loadSessionData(parsed) ==
    IF parsed.isSavedPlan /\ IsSome(user) /\ IsSome(token)
    THEN /\ net' = Send(ApiGetPlanById(parsed.sessionId, Get(token)))
         /\ UNCHANGED << isLoadingRecommendations, isViewingsavedPlan >>
    ELSE /\ isViewingsavedPlan' = FALSE
         /\ loadRecommendations(parsed.sessionId)

\* MapPage's useEffect, deps [router, user, token]
MapPageEffect ==
    /\ Mounted /\ rendered /\ effectDue
    /\ effectDue' = FALSE
    /\ Step("effect", None)
    /\ UNCHANGED sideVars
    /\ IF lsSession = None
       THEN /\ redirecting' = TRUE
            /\ UNCHANGED << session, net, isLoadingRecommendations, isViewingsavedPlan,
                            rendered >>
       ELSE /\ session' = lsSession
            /\ loadSessionData(Get(lsSession))
            /\ rendered' = FALSE
            /\ UNCHANGED redirecting
    /\ UNCHANGED << dashVars, authVars, page, attractions, route, messages, isLoading, isSavingPlan,
                    showChat, showTimeline, planStore >>

\* AuthProvider's mount effect; a child's effects run before its parent's
AuthProviderEffect ==
    /\ ~authMounted /\ rendered /\ ~effectDue
    /\ authMounted' = TRUE
    /\ Step("authEffect", None)
    /\ UNCHANGED << onboardVars, modal, userStore, lsUserInterests, userPrefs >>
    /\ IF IsSome(lsToken) /\ IsSome(lsUser)
       THEN /\ token' = lsToken
            /\ user' = lsUser
            /\ userInterests' = lsUserInterests
            /\ effectDue' = Mounted
            /\ rendered' = FALSE
       ELSE UNCHANGED << token, user, userInterests, effectDue, rendered >>
    /\ UNCHANGED << dashVars, lsSession, lsToken, lsUser, page, redirecting, session, attractions,
                    route, messages, isLoading, isLoadingRecommendations, isSavingPlan,
                    isViewingsavedPlan, showChat, showTimeline, net, planStore >>

\* the navigation started by router.push('/onboard') unmounts the page and
\* mounts OnboardPage
NavigateAway ==
    /\ Mounted /\ redirecting /\ rendered /\ ~effectDue /\ authMounted
    /\ page' = "onboard"
    /\ redirecting' = FALSE
    /\ form' = FormEmpty
    /\ Step("navigate", None)
    /\ UNCHANGED << modal, userStore, prefVars >>
    /\ UNCHANGED << dashVars, authVars, sessionStore, effectDue, rendered, session, attractions, route,
                    messages, isLoading, isLoadingRecommendations, isSavingPlan,
                    isViewingsavedPlan, showChat, showTimeline, net, planStore >>

\* the render after a state change; MapComponent is mounted once the
\* recommendations are no longer loading and is given route?.stops
Render ==
    /\ Mounted /\ ~rendered
    /\ rendered' = TRUE
    /\ route' = IF ~isLoadingRecommendations /\ IsSome(route)
                THEN Some(MapComponentRender(Get(route)))
                ELSE route
    /\ Step("render", None)
    /\ UNCHANGED sideVars
    /\ UNCHANGED << dashVars, authVars, flowVars, session, attractions, messages, isLoading,
                    isLoadingRecommendations, isSavingPlan, isViewingsavedPlan, showChat,
                    showTimeline, net, planStore >>

-----------------------------------------------------------------------------
(* Recommendations and the saved plan *)

Fresh(ids) == [i \in DOMAIN ids |-> [id |-> ids[i], selected |-> FALSE]]

\* loadRecommendations after its await, the request fulfilled
RecommendOk(r, data) ==
    /\ Idle /\ r \in InFlight("recommend")
    /\ r.sid \in ServerSessions
    /\ net' = Done(r)
    /\ attractions' = Fresh(data)
    /\ messages' = << Msg("assistant", "found") >>
    /\ isLoadingRecommendations' = FALSE
    /\ rendered' = FALSE
    /\ Step("recommendOk", r)
    /\ UNCHANGED sideVars
    /\ UNCHANGED << dashVars, authVars, flowVars, session, route, isLoading, isSavingPlan,
                    isViewingsavedPlan, showChat, showTimeline, planStore >>

\* loadRecommendations after its await, the request rejected
RecommendFail(r) ==
    /\ Idle /\ r \in InFlight("recommend")
    /\ net' = Done(r)
    /\ messages' = << Msg("assistant", "recommend failed, please try again") >>
    /\ isLoadingRecommendations' = FALSE
    /\ rendered' = FALSE
    /\ Step("recommendFail", r)
    /\ UNCHANGED sideVars
    /\ UNCHANGED << dashVars, authVars, flowVars, session, attractions, route, isLoading,
                    isSavingPlan, isViewingsavedPlan, showChat, showTimeline, planStore >>

\* loadSessionData after its await: GET /api/plans/{id} answered with the plan
PlanOk(r) ==
    /\ Idle /\ r \in InFlight("plan")
    /\ \E plan \in ServerOwnedPlan(planStore, r.sid, Get(r.token)) :
          /\ route' = Some(plan.route)
          /\ attractions' = [i \in DOMAIN plan.route.stops |->
                                [id |-> plan.route.stops[i].att, selected |-> TRUE]]
    /\ showTimeline' = TRUE
    /\ isLoadingRecommendations' = FALSE
    /\ isViewingsavedPlan' = TRUE
    /\ messages' = << Msg("assistant", "welcome back") >>
    /\ net' = Done(r)
    /\ rendered' = FALSE
    /\ Step("planOk", r)
    /\ UNCHANGED sideVars
    /\ UNCHANGED << dashVars, authVars, flowVars, session, isLoading, isSavingPlan, showChat, planStore >>

\* loadSessionData after its await, the request rejected: the catch block,
\* then the normal flow
PlanFail(r) ==
    /\ Idle /\ r \in InFlight("plan")
    /\ messages' = << Msg("assistant", "plan load failed, starting fresh") >>
    /\ isViewingsavedPlan' = FALSE
    /\ isLoadingRecommendations' = TRUE
    /\ net' = Done(r) (+) SetToBag({ApiGetRecommendations(r.sid)})
    /\ rendered' = FALSE
    /\ Step("planFail", r)
    /\ UNCHANGED sideVars
    /\ UNCHANGED << dashVars, authVars, flowVars, session, attractions, route, isLoading,
                    isSavingPlan, showChat, showTimeline, planStore >>

-----------------------------------------------------------------------------
(* Selecting and generating *)

\* handleAttractionClick
handleAttractionClick(a) ==
    /\ attractions' = [i \in DOMAIN attractions |->
                          IF attractions[i].id = a.id
                          THEN [attractions[i] EXCEPT !.selected = ~attractions[i].selected]
                          ELSE attractions[i]]
    /\ rendered' = FALSE
    /\ Step("click", a)
    /\ UNCHANGED sideVars
    /\ UNCHANGED << dashVars, authVars, flowVars, session, route, messages, isLoading,
                    isLoadingRecommendations, isSavingPlan, isViewingsavedPlan, showChat,
                    showTimeline, net, planStore >>

\* a marker of MapComponent is clicked: markers are drawn while no route is
\* held, and the click handler is passed only then
ClickMarker ==
    /\ Idle /\ ~isLoadingRecommendations /\ route = None
    /\ \E i \in DOMAIN attractions : handleAttractionClick(attractions[i])

\* a guard that lets a single selected attraction through
handleGenerateRouteAtLeastOne ==
    /\ Room(1)
    /\ Step("generate", None)
    /\ UNCHANGED sideVars
    /\ IF session = None
       THEN UNCHANGED << messages, isLoading, net, rendered >>
       ELSE IF Len(Selected(attractions)) < 1
       THEN /\ messages' = Append(messages, Msg("assistant", "select at least 2"))
            /\ rendered' = FALSE
            /\ UNCHANGED << isLoading, net >>
       ELSE /\ isLoading' = TRUE
            /\ net' = Send(ApiGenerateRoute(Get(session).sessionId, Selected(attractions)))
            /\ rendered' = FALSE
            /\ UNCHANGED messages
    /\ UNCHANGED << dashVars, authVars, flowVars, session, attractions, route, isLoadingRecommendations,
                    isSavingPlan, isViewingsavedPlan, showChat, showTimeline, planStore >>

\* handleGenerateRoute up to its await
handleGenerateRoute ==
    /\ Room(1)
    /\ Step("generate", None)
    /\ UNCHANGED sideVars
    /\ IF session = None
       THEN UNCHANGED << messages, isLoading, net, rendered >>
       ELSE IF Len(Selected(attractions)) < 2
       THEN /\ messages' = Append(messages, Msg("assistant", "select at least 2"))
            /\ rendered' = FALSE
            /\ UNCHANGED << isLoading, net >>
       ELSE /\ isLoading' = TRUE
            /\ net' = Send(ApiGenerateRoute(Get(session).sessionId, Selected(attractions)))
            /\ rendered' = FALSE
            /\ UNCHANGED messages
    /\ UNCHANGED << dashVars, authVars, flowVars, session, attractions, route, isLoadingRecommendations,
                    isSavingPlan, isViewingsavedPlan, showChat, showTimeline, planStore >>

\* the Generate Route button: drawn while no route is held, disabled while
\* fewer than 2 attractions are selected or isLoading
ClickGenerate ==
    /\ Idle /\ ~isLoadingRecommendations /\ route = None
    /\ ~(Len(Selected(attractions)) < 2 \/ isLoading)
    /\ handleGenerateRoute

\* handleGenerateRoute after its await, the request fulfilled
GenerateOk(r, reply) ==
    /\ Idle /\ r \in InFlight("route")
    /\ r.sid \in ServerSessions
    /\ net' = Done(r)
    /\ route' = Some(reply)
    /\ showTimeline' = TRUE
    /\ messages' = Append(messages, Msg("assistant", reply.summary))
    /\ isLoading' = FALSE
    /\ rendered' = FALSE
    /\ Step("generateOk", [req |-> r, reply |-> reply])
    /\ UNCHANGED sideVars
    /\ UNCHANGED << dashVars, authVars, flowVars, session, attractions, isLoadingRecommendations,
                    isSavingPlan, isViewingsavedPlan, showChat, planStore >>

\* a catch block that also drops the user's selection
GenerateFailResetsSelection(r) ==
    /\ Idle /\ r \in InFlight("route")
    /\ net' = Done(r)
    /\ attractions' = [i \in DOMAIN attractions |-> [attractions[i] EXCEPT !.selected = FALSE]]
    /\ messages' = Append(messages, Msg("assistant", "generate failed, please try again"))
    /\ isLoading' = FALSE
    /\ rendered' = FALSE
    /\ Step("generateFail", r)
    /\ UNCHANGED sideVars
    /\ UNCHANGED << dashVars, authVars, flowVars, session, route,
                    isLoadingRecommendations, isSavingPlan, isViewingsavedPlan, showChat,
                    showTimeline, planStore >>

\* handleGenerateRoute after its await, the request rejected
GenerateFail(r) ==
    /\ Idle /\ r \in InFlight("route")
    /\ net' = Done(r)
    /\ messages' = Append(messages, Msg("assistant", "generate failed, please try again"))
    /\ isLoading' = FALSE
    /\ rendered' = FALSE
    /\ Step("generateFail", r)
    /\ UNCHANGED sideVars
    /\ UNCHANGED << dashVars, authVars, flowVars, session, attractions, route,
                    isLoadingRecommendations, isSavingPlan, isViewingsavedPlan, showChat,
                    showTimeline, planStore >>

-----------------------------------------------------------------------------
(* Chat and refinement *)

\* handleSendMessage without the branch for a missing route: whatever is held
\* goes to /api/refine
handleSendMessageNoRouteBranch(text) ==
    /\ Room(2)
    /\ Step("send", text)
    /\ UNCHANGED sideVars
    /\ IF session = None
       THEN UNCHANGED << messages, isLoading, net, rendered >>
       ELSE IF isViewingsavedPlan
       THEN /\ messages' = messages \o << Msg("user", text),
                                          Msg("assistant", SavedPlanReply(text)) >>
            /\ isLoading' = FALSE
            /\ rendered' = FALSE
            /\ UNCHANGED net
       ELSE /\ messages' = Append(messages, Msg("user", text))
            /\ isLoading' = TRUE
            /\ net' = Send(Req("refine", Get(session).sessionId, << >>, text, route, None))
            /\ rendered' = FALSE
    /\ UNCHANGED << dashVars, authVars, flowVars, session, attractions, route, isLoadingRecommendations,
                    isSavingPlan, isViewingsavedPlan, showChat, showTimeline, planStore >>

\* handleSendMessage without the branch for a saved plan: a saved plan's route
\* goes to /api/refine like any other
handleSendMessageNoSavedBranch(text) ==
    /\ Room(2)
    /\ Step("send", text)
    /\ UNCHANGED sideVars
    /\ IF session = None
       THEN UNCHANGED << messages, isLoading, net, rendered >>
       ELSE IF route = None
       THEN /\ messages' = messages \o << Msg("user", text),
                                          Msg("assistant", "planning guidance") >>
            /\ isLoading' = FALSE
            /\ rendered' = FALSE
            /\ UNCHANGED net
       ELSE /\ messages' = Append(messages, Msg("user", text))
            /\ isLoading' = TRUE
            /\ net' = Send(ApiRefineRoute(Get(session).sessionId, text, Get(route)))
            /\ rendered' = FALSE
    /\ UNCHANGED << dashVars, authVars, flowVars, session, attractions, route, isLoadingRecommendations,
                    isSavingPlan, isViewingsavedPlan, showChat, showTimeline, planStore >>

\* handleSendMessage up to its await; the two branches without a request run
\* to the end, finally block included
handleSendMessage(text) ==
    /\ Room(2)
    /\ Step("send", text)
    /\ UNCHANGED sideVars
    /\ IF session = None
       THEN UNCHANGED << messages, isLoading, net, rendered >>
       ELSE IF isViewingsavedPlan
       THEN /\ messages' = messages \o << Msg("user", text),
                                          Msg("assistant", SavedPlanReply(text)) >>
            /\ isLoading' = FALSE
            /\ rendered' = FALSE
            /\ UNCHANGED net
       ELSE IF route = None
       THEN /\ messages' = messages \o << Msg("user", text),
                                          Msg("assistant", "planning guidance") >>
            /\ isLoading' = FALSE
            /\ rendered' = FALSE
            /\ UNCHANGED net
       ELSE /\ messages' = Append(messages, Msg("user", text))
            /\ isLoading' = TRUE
            /\ net' = Send(ApiRefineRoute(Get(session).sessionId, text, Get(route)))
            /\ rendered' = FALSE
    /\ UNCHANGED << dashVars, authVars, flowVars, session, attractions, route, isLoadingRecommendations,
                    isSavingPlan, isViewingsavedPlan, showChat, showTimeline, planStore >>

\* ChatPanel.handleSubmit: the panel is mounted while showChat, and submits a
\* non-empty text unless isLoading
SubmitChat ==
    /\ Idle /\ showChat /\ ~isLoading
    /\ \E text \in UserTexts : handleSendMessage(text)

\* a continuation that patches the held route: the stops of the response are
\* added to the stops already held
RefineOkMerges(r, reply) ==
    /\ Idle /\ r \in InFlight("refine")
    /\ r.sid \in ServerSessions
    /\ net' = Done(r)
    /\ route' = Some([reply EXCEPT !.stops = Get(route).stops \o reply.stops])
    /\ messages' = Append(messages, Msg("assistant", reply.summary))
    /\ isLoading' = FALSE
    /\ rendered' = FALSE
    /\ Step("refineOk", [req |-> r, reply |-> reply])
    /\ UNCHANGED sideVars
    /\ UNCHANGED << dashVars, authVars, flowVars, session, attractions, isLoadingRecommendations,
                    isSavingPlan, isViewingsavedPlan, showChat, showTimeline, planStore >>

\* handleSendMessage after its await, the request fulfilled
RefineOk(r, reply) ==
    /\ Idle /\ r \in InFlight("refine")
    /\ r.sid \in ServerSessions
    /\ net' = Done(r)
    /\ route' = Some(reply)
    /\ messages' = Append(messages, Msg("assistant", reply.summary))
    /\ isLoading' = FALSE
    /\ rendered' = FALSE
    /\ Step("refineOk", [req |-> r, reply |-> reply])
    /\ UNCHANGED sideVars
    /\ UNCHANGED << dashVars, authVars, flowVars, session, attractions, isLoadingRecommendations,
                    isSavingPlan, isViewingsavedPlan, showChat, showTimeline, planStore >>

\* a catch block that only logs: no message is appended
RefineFailSilent(r) ==
    /\ Idle /\ r \in InFlight("refine")
    /\ net' = Done(r)
    /\ isLoading' = FALSE
    /\ rendered' = FALSE
    /\ Step("refineFail", r)
    /\ UNCHANGED sideVars
    /\ UNCHANGED << dashVars, authVars, flowVars, session, attractions, route, messages,
                    isLoadingRecommendations, isSavingPlan, isViewingsavedPlan, showChat,
                    showTimeline, planStore >>

\* a catch block that resets the planning state: the route is cleared
RefineFailClearsRoute(r) ==
    /\ Idle /\ r \in InFlight("refine")
    /\ net' = Done(r)
    /\ route' = None
    /\ messages' = Append(messages, Msg("assistant", "refine failed, please try again"))
    /\ isLoading' = FALSE
    /\ rendered' = FALSE
    /\ Step("refineFail", r)
    /\ UNCHANGED sideVars
    /\ UNCHANGED << dashVars, authVars, flowVars, session, attractions,
                    isLoadingRecommendations, isSavingPlan, isViewingsavedPlan, showChat,
                    showTimeline, planStore >>

\* handleSendMessage after its await, the request rejected: the catch block
\* reads isViewingsavedPlan (false) and route (set) of the call's render
RefineFail(r) ==
    /\ Idle /\ r \in InFlight("refine")
    /\ net' = Done(r)
    /\ messages' = Append(messages, Msg("assistant", "refine failed, please try again"))
    /\ isLoading' = FALSE
    /\ rendered' = FALSE
    /\ Step("refineFail", r)
    /\ UNCHANGED sideVars
    /\ UNCHANGED << dashVars, authVars, flowVars, session, attractions, route,
                    isLoadingRecommendations, isSavingPlan, isViewingsavedPlan, showChat,
                    showTimeline, planStore >>

\* a chat toggle that gives up the pending refinement with the panel
ToggleChatCancels ==
    /\ Idle /\ ~isLoadingRecommendations
    /\ showChat' = ~showChat
    /\ net' = [q \in BagToSet(net) \ InFlight("refine") |-> CopiesIn(q, net)]
    /\ isLoading' = (isLoading /\ InFlight("refine") = {})
    /\ rendered' = FALSE
    /\ Step("toggleChat", None)
    /\ UNCHANGED sideVars
    /\ UNCHANGED << dashVars, authVars, flowVars, session, attractions, route, messages,
                    isLoadingRecommendations, isSavingPlan, isViewingsavedPlan,
                    showTimeline, planStore >>

\* the chat toggle, drawn once the recommendations are no longer loading
ToggleChat ==
    /\ Idle /\ ~isLoadingRecommendations
    /\ showChat' = ~showChat
    /\ rendered' = FALSE
    /\ Step("toggleChat", None)
    /\ UNCHANGED sideVars
    /\ UNCHANGED << dashVars, authVars, flowVars, session, attractions, route, messages, isLoading,
                    isLoadingRecommendations, isSavingPlan, isViewingsavedPlan,
                    showTimeline, net, planStore >>

-----------------------------------------------------------------------------
(* Saving *)

\* a guard that forgets the route: a logged-in user saves whatever is held
handleSavePlanNoRouteCheck ==
    \/ /\ session = None \/ user = None \/ token = None
       /\ Step("save", "alert: please log in")
       /\ UNCHANGED sideVars
       /\ UNCHANGED << isSavingPlan, net, rendered >>
       /\ UNCHANGED << dashVars, authVars, flowVars, session, attractions, route, messages, isLoading,
                       isLoadingRecommendations, isViewingsavedPlan, showChat,
                       showTimeline, planStore >>
    \/ /\ ~(session = None \/ user = None \/ token = None)
       /\ Room(1)
       /\ Cardinality(planStore) + Copies(InFlight("save")) < MaxPlans
       /\ Step("save", "request")
       /\ UNCHANGED sideVars
       /\ isSavingPlan' = TRUE
       /\ net' = Send(Req("save", Get(session).sessionId, << >>, "", route, token))
       /\ rendered' = FALSE
       /\ UNCHANGED << dashVars, authVars, flowVars, session, attractions, route, messages, isLoading,
                       isLoadingRecommendations, isViewingsavedPlan, showChat,
                       showTimeline, planStore >>

\* handleSavePlan up to its await
handleSavePlan ==
    \/ /\ route = None \/ session = None \/ user = None \/ token = None
       /\ Step("save", "alert: please log in")
       /\ UNCHANGED sideVars
       /\ UNCHANGED << isSavingPlan, net, rendered >>
       /\ UNCHANGED << dashVars, authVars, flowVars, session, attractions, route, messages, isLoading,
                       isLoadingRecommendations, isViewingsavedPlan, showChat,
                       showTimeline, planStore >>
    \/ /\ ~(route = None \/ session = None \/ user = None \/ token = None)
       /\ Room(1)
       /\ Cardinality(planStore) + Copies(InFlight("save")) < MaxPlans
       /\ Step("save", "request")
       /\ UNCHANGED sideVars
       /\ isSavingPlan' = TRUE
       /\ net' = Send(ApiSavePlan(Get(session).sessionId, Get(route), Get(token)))
       /\ rendered' = FALSE
       /\ UNCHANGED << dashVars, authVars, flowVars, session, attractions, route, messages, isLoading,
                       isLoadingRecommendations, isViewingsavedPlan, showChat,
                       showTimeline, planStore >>

\* the Save Plan button: drawn while a route is held and a user is logged in,
\* disabled while isSavingPlan
ClickSave ==
    /\ Idle /\ ~isLoadingRecommendations /\ IsSome(route) /\ IsSome(user)
    /\ ~isSavingPlan
    /\ handleSavePlan

\* handleSavePlan after its await, the plan stored by the server
SaveOk(r) ==
    /\ Idle /\ r \in InFlight("save")
    /\ r.sid \in ServerSessions
    /\ net' = Done(r)
    /\ planStore' = ServerSavePlan(planStore, Get(r.token), Get(r.route))
    /\ messages' = Append(messages, Msg("assistant", "plan saved"))
    /\ isSavingPlan' = FALSE
    /\ rendered' = FALSE
    /\ Step("saveOk", r)
    /\ UNCHANGED sideVars
    /\ UNCHANGED << dashVars, authVars, flowVars, session, attractions, route, isLoading,
                    isLoadingRecommendations, isViewingsavedPlan, showChat, showTimeline >>

\* handleSavePlan after its await, the request rejected
SaveFail(r) ==
    /\ Idle /\ r \in InFlight("save")
    /\ net' = Done(r)
    /\ isSavingPlan' = FALSE
    /\ rendered' = FALSE
    /\ Step("saveFail", r)
    /\ UNCHANGED sideVars
    /\ UNCHANGED << dashVars, authVars, flowVars, session, attractions, route, messages, isLoading,
                    isLoadingRecommendations, isViewingsavedPlan, showChat, showTimeline,
                    planStore >>

-----------------------------------------------------------------------------
(* The dashboard, the home page and the auth provider's login and logout *)

\* a list request sent without its Authorization header
ApiGetPlansNoAuth(t) == Req("plans", 0, << >>, "", None, None)

ApiGetPlans(t) == Req("plans", 0, << >>, "", None, Some(t))
ApiDeletePlan(id, t) == Req("delete", id, << >>, "", None, Some(t))
ApiLogin(u) == Req("login", 0, << >>, u, None, None)

\* the requests whose continuation belongs to a page that is unmounted: a
\* pending delete still reaches the server, the answers are dropped
Detached(b) ==
    LET gone == {r \in BagToSet(b) : r.kind = "delete"}
        kept == {r \in BagToSet(b) : r.kind = "deleteDetached"}
    IN  [q \in kept |-> CopiesIn(q, b)]
            (+) [q \in {[r EXCEPT !.kind = "deleteDetached"] : r \in gone}
                    |-> CopiesIn([q EXCEPT !.kind = "delete"], b)]

OnDashboard == page = "dashboard"
DashboardIdle == OnDashboard /\ rendered /\ ~effectDue

\* useState initial values of MapPage: the state of a page that is not mounted
MapPageUnmounted ==
    /\ session' = None
    /\ attractions' = << >>
    /\ route' = None
    /\ messages' = << >>
    /\ isLoading' = FALSE
    /\ isLoadingRecommendations' = TRUE
    /\ isSavingPlan' = FALSE
    /\ isViewingsavedPlan' = FALSE
    /\ showChat' = TRUE
    /\ showTimeline' = FALSE

\* useState initial values of Dashboard
DashboardMounts ==
    /\ page' = "dashboard"
    /\ plans' = {}
    /\ plansLoading' = TRUE
    /\ plansError' = ""
    /\ redirecting' = FALSE
    /\ effectDue' = TRUE
    /\ rendered' = TRUE

\* the Back button of the map page's header, drawn for a logged-in user:
\* router.push('/dashboard'); pressed while no save is pending
ClickBack ==
    /\ Idle /\ IsSome(user)
    /\ InFlight("save") = {}
    /\ DashboardMounts
    /\ MapPageUnmounted
    /\ net' = Detached(net)
    /\ Step("back", None)
    /\ UNCHANGED sideVars
    /\ UNCHANGED << authVars, planStore >>

\* Dashboard.loadPlans up to its await
loadPlans ==
    IF token = None
    THEN UNCHANGED << plansLoading, plansError, net, rendered >>
    ELSE /\ plansLoading' = TRUE
         /\ plansError' = ""
         /\ net' = Send(ApiGetPlans(Get(token)))
         /\ rendered' = FALSE

\* Dashboard's useEffect, deps [user, router]
DashboardEffect ==
    /\ OnDashboard /\ rendered /\ effectDue
    /\ effectDue' = FALSE
    /\ Step("dashboardEffect", None)
    /\ UNCHANGED sideVars
    /\ IF user = None
       THEN /\ redirecting' = TRUE
            /\ UNCHANGED << plansLoading, plansError, net, rendered >>
       ELSE /\ loadPlans
            /\ UNCHANGED redirecting
    /\ UNCHANGED << authVars, page, plans, session, attractions, route, messages, isLoading,
                    isLoadingRecommendations, isSavingPlan, isViewingsavedPlan, showChat,
                    showTimeline, planStore >>

DashboardRender ==
    /\ OnDashboard /\ ~rendered
    /\ rendered' = TRUE
    /\ Step("dashboardRender", None)
    /\ UNCHANGED sideVars
    /\ UNCHANGED << dashVars, authVars, flowVars, session, attractions, route, messages,
                    isLoading, isLoadingRecommendations, isSavingPlan, isViewingsavedPlan,
                    showChat, showTimeline, net, planStore >>

\* loadPlans after its await, the list answered
PlansOk(r) ==
    /\ DashboardIdle /\ r \in InFlight("plans")
    /\ IsSome(r.token)
    /\ net' = Done(r)
    /\ plans' = ServerListPlans(planStore, Get(r.token))
    /\ plansLoading' = FALSE
    /\ rendered' = FALSE
    /\ Step("plansOk", r)
    /\ UNCHANGED sideVars
    /\ UNCHANGED << plansError, authVars, flowVars, session, attractions, route, messages,
                    isLoading, isLoadingRecommendations, isSavingPlan, isViewingsavedPlan,
                    showChat, showTimeline, planStore >>

\* loadPlans after its await, the request rejected
PlansFail(r) ==
    /\ DashboardIdle /\ r \in InFlight("plans")
    /\ net' = Done(r)
    /\ plansError' = "failed to load plans"
    /\ plansLoading' = FALSE
    /\ rendered' = FALSE
    /\ Step("plansFail", r)
    /\ UNCHANGED sideVars
    /\ UNCHANGED << plans, authVars, flowVars, session, attractions, route, messages,
                    isLoading, isLoadingRecommendations, isSavingPlan, isViewingsavedPlan,
                    showChat, showTimeline, planStore >>

\* Dashboard.handleDeletePlan up to its await; ok is the answer to confirm()
handleDeletePlan(planId, ok) ==
    /\ Step("delete", planId)
    /\ UNCHANGED sideVars
    /\ IF token = None \/ ~ok
       THEN UNCHANGED net
       ELSE net' = Send([ApiDeletePlan(planId, Get(token)) EXCEPT !.seen = plans])
    /\ UNCHANGED << dashVars, authVars, flowVars, rendered, session, attractions, route,
                    messages, isLoading, isLoadingRecommendations, isSavingPlan,
                    isViewingsavedPlan, showChat, showTimeline, planStore >>

\* handleDeletePlan called directly with any plan id, whatever the cards show
CallDeletePlan ==
    /\ DashboardIdle
    /\ Copies(InFlight("delete") \cup InFlight("deleteDetached")) < MaxDeletes
    /\ \E id \in PlanIds : handleDeletePlan(id, TRUE)

\* the delete button of a plan's card: the cards are drawn for a logged-in
\* user once the list is loaded without error
ClickDelete ==
    /\ DashboardIdle /\ IsSome(user) /\ ~plansLoading /\ plansError = ""
    /\ Copies(InFlight("delete") \cup InFlight("deleteDetached")) < MaxDeletes
    /\ \E p \in plans, ok \in BOOLEAN : handleDeletePlan(p.id, ok)

\* handleDeletePlan after its await, the plan deleted by the server:
\* setPlans(plans.filter(...)) with the plans of the call's render
DeleteOk(r) ==
    /\ DashboardIdle /\ r \in InFlight("delete")
    /\ IsSome(r.token)
    /\ ServerOwnedPlan(planStore, r.sid, Get(r.token)) # {}
    /\ planStore' = planStore \ ServerOwnedPlan(planStore, r.sid, Get(r.token))
    /\ plans' = {p \in r.seen : p.id # r.sid}
    /\ net' = Done(r)
    /\ rendered' = FALSE
    /\ Step("deleteOk", r)
    /\ UNCHANGED sideVars
    /\ UNCHANGED << plansLoading, plansError, authVars, flowVars, session, attractions,
                    route, messages, isLoading, isLoadingRecommendations, isSavingPlan,
                    isViewingsavedPlan, showChat, showTimeline >>

\* handleDeletePlan after its await, the request rejected: an alert
DeleteFail(r) ==
    /\ DashboardIdle /\ r \in InFlight("delete")
    /\ net' = Done(r)
    /\ Step("deleteFail", r)
    /\ UNCHANGED sideVars
    /\ UNCHANGED << dashVars, authVars, flowVars, rendered, session, attractions, route,
                    messages, isLoading, isLoadingRecommendations, isSavingPlan,
                    isViewingsavedPlan, showChat, showTimeline, planStore >>

\* a delete whose page is gone, carried out by the server
DetachedDeleteOk(r) ==
    /\ r \in InFlight("deleteDetached")
    /\ IsSome(r.token)
    /\ ServerOwnedPlan(planStore, r.sid, Get(r.token)) # {}
    /\ planStore' = planStore \ ServerOwnedPlan(planStore, r.sid, Get(r.token))
    /\ net' = Done(r)
    /\ Step("detachedDeleteOk", r)
    /\ UNCHANGED sideVars
    /\ UNCHANGED << dashVars, authVars, flowVars, rendered, session, attractions, route,
                    messages, isLoading, isLoadingRecommendations, isSavingPlan,
                    isViewingsavedPlan, showChat, showTimeline >>

\* a delete whose page is gone, rejected
DetachedDeleteFail(r) ==
    /\ r \in InFlight("deleteDetached")
    /\ net' = Done(r)
    /\ Step("detachedDeleteFail", r)
    /\ UNCHANGED sideVars
    /\ UNCHANGED << dashVars, authVars, flowVars, rendered, session, attractions, route,
                    messages, isLoading, isLoadingRecommendations, isSavingPlan,
                    isViewingsavedPlan, showChat, showTimeline, planStore >>

\* a logout that ends the login only: 'wandermind_session' is kept
logoutKeepsSession ==
    /\ user' = None
    /\ token' = None
    /\ lsToken' = None
    /\ lsUser' = None
    /\ lsSession' = lsSession
    /\ userInterests' = {}
    /\ lsUserInterests' = {}

\* AuthProvider.logout
logout ==
    /\ user' = None
    /\ token' = None
    /\ lsToken' = None
    /\ lsUser' = None
    /\ lsSession' = None
    /\ userInterests' = {}
    /\ lsUserInterests' = {}

\* Dashboard.handleLogout: logout(), then router.push('/'); the change of user
\* makes the page's effect due
handleLogout ==
    /\ DashboardIdle /\ IsSome(user) /\ ~redirecting
    /\ logout
    /\ redirecting' = TRUE
    /\ effectDue' = TRUE
    /\ rendered' = FALSE
    /\ Step("logout", None)
    /\ UNCHANGED << onboardVars, modal, userStore, userPrefs >>
    /\ UNCHANGED << dashVars, authMounted, page, session, attractions, route, messages,
                    isLoading, isLoadingRecommendations, isSavingPlan, isViewingsavedPlan,
                    showChat, showTimeline, net, planStore >>

\* the navigation started by router.push('/') unmounts the dashboard and
\* mounts the home page
NavigateHome ==
    /\ OnDashboard /\ redirecting /\ rendered
    /\ page' = "home"
    /\ redirecting' = FALSE
    /\ effectDue' = TRUE
    /\ plans' = {}
    /\ plansLoading' = TRUE
    /\ plansError' = ""
    /\ net' = Detached(net)
    /\ Step("navigateHome", None)
    /\ UNCHANGED sideVars
    /\ UNCHANGED << authVars, rendered, session, attractions, route, messages, isLoading,
                    isLoadingRecommendations, isSavingPlan, isViewingsavedPlan, showChat,
                    showTimeline, planStore >>

OnHome == page = "home"

\* Home's useEffect, deps [user, router]: a logged-in user is sent to the dashboard
HomeEffect ==
    /\ OnHome /\ effectDue
    /\ effectDue' = FALSE
    /\ redirecting' = IsSome(user)
    /\ Step("homeEffect", None)
    /\ UNCHANGED sideVars
    /\ UNCHANGED << dashVars, authVars, page, rendered, session, attractions, route,
                    messages, isLoading, isLoadingRecommendations, isSavingPlan,
                    isViewingsavedPlan, showChat, showTimeline, net, planStore >>

\* the navigation started by router.push('/dashboard')
NavigateDashboard ==
    /\ OnHome /\ redirecting /\ ~effectDue
    /\ DashboardMounts
    /\ Step("navigateDashboard", None)
    /\ UNCHANGED sideVars
    /\ UNCHANGED << authVars, session, attractions, route, messages, isLoading,
                    isLoadingRecommendations, isSavingPlan, isViewingsavedPlan, showChat,
                    showTimeline, net, planStore >>

\* err.loc?.[0] || err.loc?.[1] || 'field'
FieldOfFirstLoc(e) ==
    IF Len(e.loc) >= 1 /\ e.loc[1] # "" THEN e.loc[1]
    ELSE IF Len(e.loc) >= 2 /\ e.loc[2] # "" THEN e.loc[2]
    ELSE "field"

\* err.loc?.[1] || err.loc?.[0] || 'field' (loc is indexed from 0 in the code)
FieldOf(e) ==
    IF Len(e.loc) >= 2 /\ e.loc[2] # "" THEN e.loc[2]
    ELSE IF Len(e.loc) >= 1 /\ e.loc[1] # "" THEN e.loc[1]
    ELSE "field"

\* `${field}: ${err.msg}`
EntryText(e) == << FieldOf(e), ": ", e.msg >>

\* Array.prototype.join
RECURSIVE Join(_, _)
Join(parts, sep) ==
    IF parts = << >> THEN << >>
    ELSE IF Len(parts) = 1 THEN parts[1]
    ELSE parts[1] \o << sep >> \o Join(Tail(parts), sep)

\* the message of the Error the catch block of login / signup throws
AuthErrorMessage(err, fallback) ==
    IF err.detail.kind = "list" \/ (err.detail.kind = "str" /\ err.detail.str # "")
    THEN IF err.detail.kind = "list"
         THEN Join([i \in 1..Len(err.detail.list) |-> EntryText(err.detail.list[i])], ", ")
         ELSE << err.detail.str >>
    ELSE << IF err.message # "" THEN err.message ELSE fallback >>

\* AuthModal's catch block: err.message || err.toString() || 'An error occurred'
ModalErrorText(thrown) == IF thrown # << >> THEN thrown ELSE << "Error" >>

\* AuthModal.handleSubmit in login mode, AuthProvider.login up to its await;
\* the submit button is disabled while the modal's request is pending
SubmitLogin(u) ==
    /\ OnHome /\ ~effectDue /\ user = None /\ InFlight("login") = {}
    /\ ~modal.isLoading
    /\ modal' = [error |-> << >>, isLoading |-> TRUE]
    /\ net' = Send(ApiLogin(u))
    /\ Step("login", u)
    /\ UNCHANGED << onboardVars, userStore, prefVars >>
    /\ UNCHANGED << dashVars, authVars, flowVars, rendered, session, attractions, route,
                    messages, isLoading, isLoadingRecommendations, isSavingPlan,
                    isViewingsavedPlan, showChat, showTimeline, planStore >>

\* section 6: a successful login answers with the user's bearer token
ServerLogin(u) == TokenOf(u)

\* AuthProvider.login after its await, the credentials accepted; the modal
\* closes
LoginOk(r) ==
    /\ OnHome /\ r \in InFlight("login")
    /\ r.text \in userStore
    /\ net' = Done(r)
    /\ token' = Some(ServerLogin(r.text))
    /\ user' = Some(r.text)
    /\ lsToken' = Some(ServerLogin(r.text))
    /\ lsUser' = Some(r.text)
    /\ effectDue' = TRUE
    /\ userInterests' = userPrefs[r.text]
    /\ lsUserInterests' = userPrefs[r.text]
    /\ modal' = [modal EXCEPT !.isLoading = FALSE]
    /\ Step("loginOk", r)
    /\ UNCHANGED << onboardVars, userStore, userPrefs >>
    /\ UNCHANGED << dashVars, lsSession, authMounted, page, redirecting, rendered, session,
                    attractions, route, messages, isLoading, isLoadingRecommendations,
                    isSavingPlan, isViewingsavedPlan, showChat, showTimeline, planStore >>

\* AuthProvider.login after its await, the request rejected with err: the
\* catch block throws and the modal shows the message
LoginFail(r, err) ==
    /\ OnHome /\ r \in InFlight("login")
    /\ net' = Done(r)
    /\ modal' = [error |-> ModalErrorText(AuthErrorMessage(err, "Login failed")),
                 isLoading |-> FALSE]
    /\ Step("loginFail",
            [request |-> r, error |-> err, thrown |-> AuthErrorMessage(err, "Login failed")])
    /\ UNCHANGED << onboardVars, userStore, prefVars >>
    /\ UNCHANGED << dashVars, authVars, flowVars, rendered, session, attractions, route,
                    messages, isLoading, isLoadingRecommendations, isSavingPlan,
                    isViewingsavedPlan, showChat, showTimeline, planStore >>

ApiSignup(u, pw, name) ==
    [Req("signup", 0, << >>, u, None, None) EXCEPT !.seen = {[password |-> pw, name |-> name]}]

\* the password input without its minLength
PasswordAcceptedAnyLength(pw) == pw >= 1

\* the browser's check of the password input when the form is submitted:
\* required, minLength={6}
PasswordAccepted(pw) == pw >= MinPasswordLength

\* the signup form is submitted: the browser keeps a form with an empty name
\* or a password it does not accept from reaching the handler; then
\* AuthModal.handleSubmit in signup mode, AuthProvider.signup up to its
\* await; a name that is blank ends the handler with an error
SubmitSignup(u, pw, name) ==
    /\ OnHome /\ ~effectDue /\ user = None
    /\ ~modal.isLoading
    /\ IF name = "" \/ ~PasswordAccepted(pw)
       THEN /\ UNCHANGED << modal, net >>
            /\ Step("signupBlocked", [user |-> u, password |-> pw, name |-> name])
       ELSE /\ IF Trim(name) = ""
               THEN /\ modal' = [error |-> << "Please enter your name" >>,
                                 isLoading |-> FALSE]
                    /\ UNCHANGED net
               ELSE /\ modal' = [error |-> << >>, isLoading |-> TRUE]
                    /\ net' = Send(ApiSignup(u, pw, name))
            /\ Step("signup", [user |-> u, password |-> pw, name |-> name])
    /\ UNCHANGED << onboardVars, userStore, prefVars >>
    /\ UNCHANGED << dashVars, authVars, flowVars, pageVars, rendered, planStore >>

\* section 4.5 signup: the email is not registered and the password has the
\* minimum length
ServerSignupAccepts(store, r) ==
    /\ r.text \notin store
    /\ \A d \in r.seen : d.password >= MinPasswordLength

\* AuthProvider.signup after its await, the user created; the modal closes
SignupOk(r) ==
    /\ OnHome /\ r \in InFlight("signup")
    /\ ServerSignupAccepts(userStore, r)
    /\ userStore' = userStore \cup {r.text}
    /\ net' = Done(r)
    /\ token' = Some(ServerLogin(r.text))
    /\ user' = Some(r.text)
    /\ lsToken' = Some(ServerLogin(r.text))
    /\ lsUser' = Some(r.text)
    /\ effectDue' = TRUE
    /\ userInterests' = userPrefs[r.text]
    /\ lsUserInterests' = userPrefs[r.text]
    /\ modal' = [modal EXCEPT !.isLoading = FALSE]
    /\ Step("signupOk", r)
    /\ UNCHANGED << dashVars, lsSession, authMounted, page, redirecting, pageVars, rendered,
                    planStore, onboardVars, userPrefs >>

\* AuthProvider.signup after its await, the request rejected with err
SignupFail(r, err) ==
    /\ OnHome /\ r \in InFlight("signup")
    /\ net' = Done(r)
    /\ modal' = [error |-> ModalErrorText(AuthErrorMessage(err, "Signup failed")),
                 isLoading |-> FALSE]
    /\ Step("signupFail",
            [request |-> r, error |-> err, thrown |-> AuthErrorMessage(err, "Signup failed")])
    /\ UNCHANGED << dashVars, authVars, flowVars, pageVars, rendered, planStore,
                    onboardVars, userStore, prefVars >>

-----------------------------------------------------------------------------
(* AuthProvider.updatePreferences *)

\* the interest lists updatePreferences is given, kept as sets
InterestSets == SUBSET {"Museums", "Beach"}

\* PUT /api/auth/preferences; the continuation keeps the user of the render
\* the function was created in
ApiUpdatePreferences(ints, t, u) ==
    [Req("prefs", 0, << >>, "", None, Some(t)) EXCEPT
        !.seen = {[interests |-> ints, user |-> u]}]

\* updatePreferences up to its await: without token it throws before any request
updatePreferences(ints) ==
    /\ authMounted
    /\ IF token = None
       THEN /\ UNCHANGED net
            /\ Step("updatePreferences",
                    [interests |-> ints, thrown |-> Some("Not authenticated")])
       ELSE /\ Copies(InFlight("prefs") \cup InFlight("plans")) < MaxPrefRequests
            /\ net' = Send(ApiUpdatePreferences(ints, Get(token), user))
            /\ Step("updatePreferences", [interests |-> ints, thrown |-> None])
    /\ UNCHANGED << dashVars, authVars, flowVars, pageVars, rendered, planStore,
                    onboardVars, modal, userStore, prefVars >>

\* section 4.5 updatePreferences: replaces the interest set of the token's user
ServerUpdatePreferences(prefs, t, ints) == [prefs EXCEPT ![UserOfToken(t)] = ints]

\* setUser: the pages' effects depend on user, the page renders again
UserChanged ==
    /\ effectDue' = TRUE
    /\ rendered' = (OnHome /\ rendered)

\* updatePreferences after its await with the new interests added to the old ones
PrefsOkMerges(r) ==
    /\ r \in InFlight("prefs")
    /\ UserOfToken(Get(r.token)) \in userStore
    /\ net' = Done(r)
    /\ \E d \in r.seen :
          /\ userPrefs' = ServerUpdatePreferences(userPrefs, Get(r.token), d.interests)
          /\ IF IsSome(d.user)
             THEN /\ user' = d.user
                  /\ userInterests' = userInterests \cup d.interests
                  /\ lsUser' = d.user
                  /\ lsUserInterests' = userInterests \cup d.interests
                  /\ UserChanged
             ELSE UNCHANGED << user, userInterests, lsUser, lsUserInterests, effectDue,
                               rendered >>
    /\ Step("prefsOk", r)
    /\ UNCHANGED << dashVars, lsSession, lsToken, token, authMounted, page, redirecting,
                    pageVars, planStore, onboardVars, modal, userStore >>

\* updatePreferences after its await, the request accepted: the user of the
\* closure with the given interests becomes the user and is stored
PrefsOk(r) ==
    /\ r \in InFlight("prefs")
    /\ UserOfToken(Get(r.token)) \in userStore
    /\ net' = Done(r)
    /\ \E d \in r.seen :
          /\ userPrefs' = ServerUpdatePreferences(userPrefs, Get(r.token), d.interests)
          /\ IF IsSome(d.user)
             THEN /\ user' = d.user
                  /\ userInterests' = d.interests
                  /\ lsUser' = d.user
                  /\ lsUserInterests' = d.interests
                  /\ UserChanged
             ELSE UNCHANGED << user, userInterests, lsUser, lsUserInterests, effectDue,
                               rendered >>
    /\ Step("prefsOk", r)
    /\ UNCHANGED << dashVars, lsSession, lsToken, token, authMounted, page, redirecting,
                    pageVars, planStore, onboardVars, modal, userStore >>

\* the detail of a failed PUT /api/auth/preferences ("" when there is none)
PrefsErrorDetails == {"", "Could not validate credentials"}

\* updatePreferences after its await, the request rejected: it throws
PrefsFail(r, detail) ==
    /\ r \in InFlight("prefs")
    /\ net' = Done(r)
    /\ Step("prefsFail",
            [request |-> r,
             thrown |-> Some(IF detail # "" THEN detail ELSE "Failed to update preferences")])
    /\ UNCHANGED << dashVars, authVars, flowVars, pageVars, rendered, planStore,
                    onboardVars, modal, userStore, prefVars >>

-----------------------------------------------------------------------------
(* OnboardPage *)

OnOnboard == page = "onboard"

setCity(c) ==
    /\ OnOnboard
    /\ form' = [form EXCEPT !.city = c]
    /\ Step("setCity", c)
    /\ UNCHANGED << dashVars, authVars, flowVars, pageVars, rendered, net, planStore,
                    sessionStore, modal, userStore, prefVars >>

setStartDate(d) ==
    /\ OnOnboard
    /\ form' = [form EXCEPT !.startDate = d]
    /\ Step("setStartDate", d)
    /\ UNCHANGED << dashVars, authVars, flowVars, pageVars, rendered, net, planStore,
                    sessionStore, modal, userStore, prefVars >>

setEndDate(d) ==
    /\ OnOnboard
    /\ form' = [form EXCEPT !.endDate = d]
    /\ Step("setEndDate", d)
    /\ UNCHANGED << dashVars, authVars, flowVars, pageVars, rendered, net, planStore,
                    sessionStore, modal, userStore, prefVars >>

toggleInterest(i) ==
    /\ OnOnboard
    /\ form' = [form EXCEPT !.selectedInterests =
                    IF i \in @ THEN @ \ {i} ELSE @ \cup {i}]
    /\ Step("toggleInterest", i)
    /\ UNCHANGED << dashVars, authVars, flowVars, pageVars, rendered, net, planStore,
                    sessionStore, modal, userStore, prefVars >>

\* the browser's check of the date inputs when the form is submitted: a date
\* that is given is not below the input's min attribute (today for the start
\* date, the start date or today for the end date); no field is required
DatesInRange(f) ==
    /\ IsSome(f.startDate) => Get(f.startDate) >= Today
    /\ IsSome(f.endDate) =>
          Get(f.endDate) >= (IF IsSome(f.startDate) THEN Get(f.startDate) ELSE Today)

ApiInitSession(d) == [Req("init", 0, << >>, "", None, None) EXCEPT !.seen = {d}]

\* handleSubmit of OnboardPage without its check of the fields
handleSubmitUnchecked ==
    /\ form' = [form EXCEPT !.error = "", !.isLoading = TRUE]
    /\ net' = Send(ApiInitSession(
                  [city |-> form.city,
                   startDate |-> IF IsSome(form.startDate) THEN Get(form.startDate) ELSE 0,
                   endDate |-> IF IsSome(form.endDate) THEN Get(form.endDate) ELSE 0,
                   interests |-> form.selectedInterests]))

\* handleSubmit of OnboardPage up to its await
handleSubmit ==
    IF form.city = "" \/ form.startDate = None \/ form.endDate = None
          \/ form.selectedInterests = {}
    THEN /\ form' = [form EXCEPT
                        !.error = "Please fill in all fields and select at least one interest"]
         /\ UNCHANGED net
    ELSE /\ form' = [form EXCEPT !.error = "", !.isLoading = TRUE]
         /\ net' = Send(ApiInitSession(
                       [city |-> form.city, startDate |-> Get(form.startDate),
                        endDate |-> Get(form.endDate),
                        interests |-> form.selectedInterests]))

\* the form is submitted: the button is disabled while isLoading
SubmitOnboard ==
    /\ OnOnboard /\ ~redirecting /\ ~form.isLoading
    /\ DatesInRange(form)
    /\ handleSubmit
    /\ Step("submit", form)
    /\ UNCHANGED << dashVars, authVars, flowVars, pageVars, rendered, planStore,
                    sessionStore, modal, userStore, prefVars >>

\* handleSubmit after its await, the session created: it is stored and
\* router.push('/map') is called; isLoading stays set
InitOk(r) ==
    /\ OnOnboard /\ r \in InFlight("init")
    /\ Cardinality(sessionStore) <= MaxSessions
    /\ \E d \in r.seen :
          /\ SessionValid(d)
          /\ sessionStore' = ServerCreateSession(sessionStore, d)
    /\ \E x \in sessionStore' \ sessionStore :
          lsSession' = Some([sessionId |-> x.id, isSavedPlan |-> FALSE])
    /\ redirecting' = TRUE
    /\ net' = Done(r)
    /\ Step("initOk", r)
    /\ UNCHANGED << dashVars, lsToken, lsUser, user, token, authMounted, page, effectDue,
                    pageVars, rendered, planStore, form, modal, userStore, prefVars >>

\* the detail of a failed /api/init ("" when the response carries none)
InitErrorDetails == {"", "End date must not be before start date"}

\* handleSubmit after its await, the request failed
InitFail(r, detail) ==
    /\ OnOnboard /\ r \in InFlight("init")
    /\ form' = [form EXCEPT
                   !.error = IF detail # "" THEN detail ELSE "Failed to initialize session",
                   !.isLoading = FALSE]
    /\ net' = Done(r)
    /\ Step("initFail", r)
    /\ UNCHANGED << dashVars, authVars, flowVars, pageVars, rendered, planStore,
                    sessionStore, modal, userStore, prefVars >>

\* the navigation started by router.push('/map') unmounts OnboardPage and
\* mounts MapPage
NavigateMap ==
    /\ OnOnboard /\ redirecting
    /\ page' = "map"
    /\ redirecting' = FALSE
    /\ effectDue' = TRUE
    /\ rendered' = TRUE
    /\ MapPageUnmounted
    /\ form' = FormEmpty
    /\ Step("navigateMap", None)
    /\ UNCHANGED << dashVars, authVars, net, planStore, sessionStore, modal, userStore,
                    prefVars >>

\* the user opens /onboard again once no request is pending: OnboardPage mounts
OpenOnboard ==
    /\ Idle /\ net = EmptyBag
    /\ page' = "onboard"
    /\ form' = FormEmpty
    /\ Step("openOnboard", None)
    /\ UNCHANGED << dashVars, authVars, redirecting, effectDue, pageVars, rendered, net,
                    planStore, sessionStore, modal, userStore, prefVars >>

-----------------------------------------------------------------------------
(* The page as the user drives it *)

Next ==
    \/ MapPageEffect
    \/ AuthProviderEffect
    \/ NavigateAway
    \/ Render
    \/ ClickMarker
    \/ ClickGenerate
    \/ SubmitChat
    \/ ClickSave
    \/ \E r \in BagToSet(net), data \in RecommendOutputs : RecommendOk(r, data)
    \/ \E r \in BagToSet(net) : RecommendFail(r)
    \/ \E r \in BagToSet(net) : PlanOk(r)
    \/ \E r \in BagToSet(net) : PlanFail(r)
    \/ \E r \in BagToSet(net), reply \in GatewayReplies : GenerateOk(r, reply)
    \/ \E r \in BagToSet(net) : GenerateFail(r)
    \/ \E r \in BagToSet(net), reply \in GatewayReplies : RefineOk(r, reply)
    \/ \E r \in BagToSet(net) : RefineFail(r)
    \/ \E r \in BagToSet(net) : SaveOk(r)
    \/ \E r \in BagToSet(net) : SaveFail(r)

Spec == Init /\ [][Next]_vars

\* the page without saving: selecting, generating, chatting and refining
NextPlanning ==
    \/ MapPageEffect
    \/ AuthProviderEffect
    \/ NavigateAway
    \/ Render
    \/ ClickMarker
    \/ ClickGenerate
    \/ SubmitChat
    \/ \E r \in BagToSet(net), data \in RecommendOutputs : RecommendOk(r, data)
    \/ \E r \in BagToSet(net) : RecommendFail(r)
    \/ \E r \in BagToSet(net) : PlanOk(r)
    \/ \E r \in BagToSet(net) : PlanFail(r)
    \/ \E r \in BagToSet(net), reply \in GatewayReplies : GenerateOk(r, reply)
    \/ \E r \in BagToSet(net) : GenerateFail(r)
    \/ \E r \in BagToSet(net), reply \in GatewayReplies : RefineOk(r, reply)
    \/ \E r \in BagToSet(net) : RefineFail(r)

SpecPlanning == Init /\ [][NextPlanning]_vars

\* handleGenerateRoute called directly, whatever its button allows
CallGenerateRoute == Idle /\ handleGenerateRoute

NextGenerate ==
    \/ MapPageEffect
    \/ AuthProviderEffect
    \/ NavigateAway
    \/ Render
    \/ ClickMarker
    \/ CallGenerateRoute
    \/ \E r \in BagToSet(net), data \in RecommendOutputs : RecommendOk(r, data)
    \/ \E r \in BagToSet(net) : RecommendFail(r)
    \/ \E r \in BagToSet(net) : PlanOk(r)
    \/ \E r \in BagToSet(net) : PlanFail(r)
    \/ \E r \in BagToSet(net), reply \in GatewayReplies : GenerateOk(r, reply)
    \/ \E r \in BagToSet(net) : GenerateFail(r)

SpecGenerate == Init /\ [][NextGenerate]_vars

\* handleSavePlan called directly, whatever its button allows
CallSavePlan == Idle /\ handleSavePlan

NextSave ==
    \/ MapPageEffect
    \/ AuthProviderEffect
    \/ NavigateAway
    \/ Render
    \/ ClickMarker
    \/ ClickGenerate
    \/ CallSavePlan
    \/ \E r \in BagToSet(net), data \in RecommendOutputs : RecommendOk(r, data)
    \/ \E r \in BagToSet(net) : RecommendFail(r)
    \/ \E r \in BagToSet(net) : PlanOk(r)
    \/ \E r \in BagToSet(net) : PlanFail(r)
    \/ \E r \in BagToSet(net), reply \in GatewayReplies : GenerateOk(r, reply)
    \/ \E r \in BagToSet(net) : GenerateFail(r)
    \/ \E r \in BagToSet(net) : SaveOk(r)
    \/ \E r \in BagToSet(net) : SaveFail(r)

SpecSave == Init /\ [][NextSave]_vars

-----------------------------------------------------------------------------
(* The plan store as the client reaches it: a logged-in user opens a stored  *)
(* saved-plan session on the map page, goes back to the dashboard, lists and *)
(* deletes plans, logs out, and a user logs in on the home page              *)

\* the plans saved before the run: one of A, or one of A and one of B
SeedStores ==
    { {[id |-> 1, owner |-> "A", route |-> SeedRoute]},
      {[id |-> 1, owner |-> "A", route |-> SeedRoute],
       [id |-> 2, owner |-> "B", route |-> SeedRoute]} }

InitPlans ==
    /\ lsSession \in {Some([sessionId |-> i, isSavedPlan |-> TRUE]) : i \in PlanIds}
    /\ \E u \in Users :
          /\ lsUser = Some(u) /\ user = Some(u)
          /\ lsToken = Some(TokenOf(u)) /\ token = Some(TokenOf(u))
    /\ authMounted = TRUE
    /\ page = "map"
    /\ redirecting = FALSE
    /\ effectDue = TRUE
    /\ rendered = TRUE
    /\ session = None
    /\ attractions = << >>
    /\ route = None
    /\ messages = << >>
    /\ isLoading = FALSE
    /\ isLoadingRecommendations = TRUE
    /\ isSavingPlan = FALSE
    /\ isViewingsavedPlan = FALSE
    /\ showChat = TRUE
    /\ showTimeline = FALSE
    /\ net = EmptyBag
    /\ planStore \in SeedStores
    /\ form = FormEmpty
    /\ sessionStore = {SeedSession}
    /\ modal = ModalEmpty
    /\ userStore = Users
    /\ userInterests = {}
    /\ lsUserInterests = {}
    /\ userPrefs = [u \in Users \cup Newcomers |-> {}]
    /\ plans = {}
    /\ plansLoading = TRUE
    /\ plansError = ""
    /\ last = [op |-> "init", arg |-> None]

NextPlans ==
    \/ MapPageEffect
    \/ Render
    \/ \E r \in BagToSet(net) : PlanOk(r)
    \/ \E r \in BagToSet(net) : PlanFail(r)
    \/ \E r \in BagToSet(net) : RecommendFail(r)
    \/ ClickBack
    \/ DashboardEffect
    \/ DashboardRender
    \/ \E r \in BagToSet(net) : PlansOk(r)
    \/ \E r \in BagToSet(net) : PlansFail(r)
    \/ ClickDelete
    \/ CallDeletePlan
    \/ \E r \in BagToSet(net) : DeleteOk(r)
    \/ \E r \in BagToSet(net) : DeleteFail(r)
    \/ \E r \in BagToSet(net) : DetachedDeleteOk(r)
    \/ \E r \in BagToSet(net) : DetachedDeleteFail(r)
    \/ handleLogout
    \/ NavigateHome
    \/ HomeEffect
    \/ NavigateDashboard
    \/ \E u \in Users : SubmitLogin(u)
    \/ \E r \in BagToSet(net) : LoginOk(r)
    \/ \E r \in BagToSet(net) : LoginFail(r, NoResponse)

SpecPlans == InitPlans /\ [][NextPlans]_vars

-----------------------------------------------------------------------------
(* Saving a plan and opening it again *)

\* the map page is opened again with a stored plan's id kept under
\* 'wandermind_session' and marked isSavedPlan, once no request is pending;
\* after a full load the auth provider mounts again with the page
OpenSavedPlan ==
    /\ Idle /\ IsSome(user) /\ net = EmptyBag
    /\ \E p \in planStore : lsSession' = Some([sessionId |-> p.id, isSavedPlan |-> TRUE])
    /\ authMounted' \in BOOLEAN
    /\ user' = IF authMounted' THEN lsUser ELSE None
    /\ token' = IF authMounted' THEN lsToken ELSE None
    /\ userInterests' = IF authMounted' THEN lsUserInterests ELSE {}
    /\ MapPageUnmounted
    /\ effectDue' = TRUE
    /\ rendered' = TRUE
    /\ Step("open", None)
    /\ UNCHANGED << onboardVars, modal, userStore, lsUserInterests, userPrefs >>
    /\ UNCHANGED << dashVars, lsToken, lsUser, page, redirecting, net, planStore >>

NextRoundTrip ==
    \/ MapPageEffect
    \/ AuthProviderEffect
    \/ NavigateAway
    \/ Render
    \/ ClickMarker
    \/ ClickGenerate
    \/ ClickSave
    \/ OpenSavedPlan
    \/ \E r \in BagToSet(net), data \in RecommendOutputs : RecommendOk(r, data)
    \/ \E r \in BagToSet(net) : RecommendFail(r)
    \/ \E r \in BagToSet(net) : PlanOk(r)
    \/ \E r \in BagToSet(net) : PlanFail(r)
    \/ \E r \in BagToSet(net), reply \in GatewayReplies : GenerateOk(r, reply)
    \/ \E r \in BagToSet(net) : GenerateFail(r)
    \/ \E r \in BagToSet(net) : SaveOk(r)
    \/ \E r \in BagToSet(net) : SaveFail(r)

SpecRoundTrip == Init /\ [][NextRoundTrip]_vars

-----------------------------------------------------------------------------
(* Onboarding: sessions are created and their recommendations loaded *)

InitOnboard ==
    /\ lsSession = None
    /\ \E u \in {None, Some("A")} :
          /\ lsUser = u /\ user = u
          /\ lsToken = (IF u = None THEN None ELSE Some(TokenOf(Get(u))))
          /\ token = lsToken
    /\ authMounted = TRUE
    /\ page = "onboard"
    /\ redirecting = FALSE
    /\ effectDue = FALSE
    /\ rendered = TRUE
    /\ session = None
    /\ attractions = << >>
    /\ route = None
    /\ messages = << >>
    /\ isLoading = FALSE
    /\ isLoadingRecommendations = TRUE
    /\ isSavingPlan = FALSE
    /\ isViewingsavedPlan = FALSE
    /\ showChat = TRUE
    /\ showTimeline = FALSE
    /\ net = EmptyBag
    /\ planStore = {}
    /\ plans = {}
    /\ plansLoading = TRUE
    /\ plansError = ""
    /\ form = FormEmpty
    /\ sessionStore = {SeedSession}
    /\ modal = ModalEmpty
    /\ userStore = Users
    /\ userInterests = {}
    /\ lsUserInterests = {}
    /\ userPrefs = [u \in Users \cup Newcomers |-> {}]
    /\ last = [op |-> "init", arg |-> None]

NextOnboard ==
    \/ \E c \in Cities : setCity(c)
    \/ \E d \in {None} \cup {Some(x) : x \in Dates} : setStartDate(d)
    \/ \E d \in {None} \cup {Some(x) : x \in Dates} : setEndDate(d)
    \/ \E i \in InterestTags : toggleInterest(i)
    \/ SubmitOnboard
    \/ \E r \in BagToSet(net) : InitOk(r)
    \/ \E r \in BagToSet(net), detail \in InitErrorDetails : InitFail(r, detail)
    \/ NavigateMap
    \/ MapPageEffect
    \/ Render
    \/ \E r \in BagToSet(net), data \in RecommendOutputs : RecommendOk(r, data)
    \/ \E r \in BagToSet(net) : RecommendFail(r)
    \/ OpenOnboard

SpecOnboard == InitOnboard /\ [][NextOnboard]_vars

-----------------------------------------------------------------------------
(* Logging in and signing up on the home page *)

InitAuth ==
    /\ lsSession = None /\ lsToken = None /\ lsUser = None
    /\ user = None /\ token = None
    /\ authMounted = TRUE
    /\ page = "home"
    /\ redirecting = FALSE
    /\ effectDue = TRUE
    /\ rendered = TRUE
    /\ session = None
    /\ attractions = << >>
    /\ route = None
    /\ messages = << >>
    /\ isLoading = FALSE
    /\ isLoadingRecommendations = TRUE
    /\ isSavingPlan = FALSE
    /\ isViewingsavedPlan = FALSE
    /\ showChat = TRUE
    /\ showTimeline = FALSE
    /\ net = EmptyBag
    /\ planStore \in SeedStores
    /\ plans = {}
    /\ plansLoading = TRUE
    /\ plansError = ""
    /\ form = FormEmpty
    /\ sessionStore = {SeedSession}
    /\ modal = ModalEmpty
    /\ userStore = Users
    /\ userInterests = {}
    /\ lsUserInterests = {}
    /\ userPrefs = [u \in Users \cup Newcomers |-> {}]
    /\ last = [op |-> "init", arg |-> None]

NextAuth ==
    \/ HomeEffect
    \/ \E u \in Users \cup Newcomers : SubmitLogin(u)
    \/ \E r \in BagToSet(net) : LoginOk(r)
    \/ \E r \in BagToSet(net), err \in AuthErrors : LoginFail(r, err)
    \/ \E u \in Users \cup Newcomers, pw \in PasswordLengths, name \in Names :
          SubmitSignup(u, pw, name)
    \/ \E r \in BagToSet(net) : SignupOk(r)
    \/ \E r \in BagToSet(net), err \in AuthErrors : SignupFail(r, err)
    \/ NavigateDashboard
    \/ DashboardEffect
    \/ DashboardRender
    \/ \E r \in BagToSet(net) : PlansOk(r)
    \/ \E r \in BagToSet(net) : PlansFail(r)
    \/ handleLogout
    \/ NavigateHome

SpecAuth == InitAuth /\ [][NextAuth]_vars

-----------------------------------------------------------------------------
(* Updating the preferences while logged in or out *)

InitPrefs ==
    /\ lsSession = None
    /\ lsUser = Some("A") /\ user = Some("A")
    /\ lsToken = Some(TokenOf("A")) /\ token = Some(TokenOf("A"))
    /\ authMounted = TRUE
    /\ page = "dashboard"
    /\ redirecting = FALSE
    /\ effectDue = TRUE
    /\ rendered = TRUE
    /\ session = None
    /\ attractions = << >>
    /\ route = None
    /\ messages = << >>
    /\ isLoading = FALSE
    /\ isLoadingRecommendations = TRUE
    /\ isSavingPlan = FALSE
    /\ isViewingsavedPlan = FALSE
    /\ showChat = TRUE
    /\ showTimeline = FALSE
    /\ net = EmptyBag
    /\ planStore = {}
    /\ plans = {}
    /\ plansLoading = TRUE
    /\ plansError = ""
    /\ form = FormEmpty
    /\ sessionStore = {SeedSession}
    /\ modal = ModalEmpty
    /\ userStore = Users
    /\ \E ints \in InterestSets :
          /\ userInterests = ints
          /\ lsUserInterests = ints
          /\ userPrefs = [u \in Users \cup Newcomers |-> IF u = "A" THEN ints ELSE {}]
    /\ last = [op |-> "init", arg |-> None]

NextPrefs ==
    \/ \E ints \in InterestSets : updatePreferences(ints)
    \/ \E r \in BagToSet(net) : PrefsOk(r)
    \/ \E r \in BagToSet(net), detail \in PrefsErrorDetails : PrefsFail(r, detail)
    \/ DashboardEffect
    \/ DashboardRender
    \/ \E r \in BagToSet(net) : PlansOk(r)
    \/ \E r \in BagToSet(net) : PlansFail(r)
    \/ handleLogout
    \/ NavigateHome
    \/ HomeEffect
    \/ NavigateDashboard

SpecPrefs == InitPrefs /\ [][NextPrefs]_vars

-----------------------------------------------------------------------------
(* Planning with the chat panel shown and hidden *)

NextChat ==
    \/ MapPageEffect
    \/ AuthProviderEffect
    \/ NavigateAway
    \/ Render
    \/ ClickMarker
    \/ ClickGenerate
    \/ SubmitChat
    \/ ToggleChat
    \/ \E r \in BagToSet(net), data \in RecommendOutputs : RecommendOk(r, data)
    \/ \E r \in BagToSet(net) : RecommendFail(r)
    \/ \E r \in BagToSet(net) : PlanOk(r)
    \/ \E r \in BagToSet(net) : PlanFail(r)
    \/ \E r \in BagToSet(net), reply \in GatewayReplies : GenerateOk(r, reply)
    \/ \E r \in BagToSet(net) : GenerateFail(r)
    \/ \E r \in BagToSet(net), reply \in GatewayReplies : RefineOk(r, reply)
    \/ \E r \in BagToSet(net) : RefineFail(r)

SpecChat == Init /\ [][NextChat]_vars

-----------------------------------------------------------------------------
(* MapComponent draws the polyline of a route *)

\* the stops of the routes MapComponent is given: the order numbers restart
\* with each day
DrawnStops ==
    StopPool \cup {[att |-> 4, day |-> 2, order |-> 2, startTime |-> 2]}

\* routes of up to MaxDrawn stops, no attraction visited twice
DrawnRoutes ==
    { [stops |-> q, summary |-> m] :
        q \in { x \in UNION {[1..n -> DrawnStops] : n \in 1..MaxDrawn} :
                  \A i, j \in DOMAIN x : i # j => x[i].att # x[j].att },
        m \in Summaries }

InitPolyline ==
    /\ lsSession = Some([sessionId |-> 0, isSavedPlan |-> FALSE])
    /\ lsToken = None /\ lsUser = None /\ user = None /\ token = None
    /\ authMounted = TRUE
    /\ page = "map"
    /\ redirecting = FALSE
    /\ effectDue = FALSE
    /\ rendered = FALSE
    /\ session = lsSession
    /\ attractions = << >>
    /\ route \in {Some(r) : r \in DrawnRoutes}
    /\ messages = << >>
    /\ isLoading = FALSE
    /\ isLoadingRecommendations = FALSE
    /\ isSavingPlan = FALSE
    /\ isViewingsavedPlan = FALSE
    /\ showChat = TRUE
    /\ showTimeline = FALSE
    /\ net = EmptyBag
    /\ planStore = {}
    /\ plans = {}
    /\ plansLoading = TRUE
    /\ plansError = ""
    /\ form = FormEmpty
    /\ sessionStore = {SeedSession}
    /\ modal = ModalEmpty
    /\ userStore = Users
    /\ userInterests = {}
    /\ lsUserInterests = {}
    /\ userPrefs = [u \in Users \cup Newcomers |-> {}]
    /\ last = [op |-> "init", arg |-> None]

\* MapComponent renders the route of the page: the polyline is given
\* routePositions, and route.stops is left sorted
DrawPolyline ==
    /\ Mounted /\ ~rendered /\ IsSome(route) /\ ~isLoadingRecommendations
    /\ rendered' = TRUE
    /\ route' = Some(MapComponentRender(Get(route)))
    /\ Step("polyline", routePositions(Get(route).stops))
    /\ UNCHANGED sideVars
    /\ UNCHANGED << dashVars, authVars, flowVars, session, attractions, messages, isLoading,
                    isLoadingRecommendations, isSavingPlan, isViewingsavedPlan, showChat,
                    showTimeline, net, planStore >>

NextPolyline ==
    \/ DrawPolyline

SpecPolyline == InitPolyline /\ [][NextPolyline]_vars

-----------------------------------------------------------------------------
(* RouteTimeline draws the stops of a route *)

\* Object.entries of an object with integer keys: the keys in ascending order
AscendingKeys(S) ==
    CHOOSE q \in [1..Cardinality(S) -> S] : \A i, j \in DOMAIN q : i < j => q[i] < q[j]

\* a timeline that shows the first stop of each day only
groupedByDayFirstStop(stops) ==
    LET days == AscendingKeys({stops[i].day : i \in DOMAIN stops})
    IN  [g \in DOMAIN days |->
            [day |-> days[g],
             stops |-> SubSeq(SelectSeq(stops, LAMBDA st : st.day = days[g]), 1, 1)]]

\* RouteTimeline: stops.reduce into acc[stop.day], then per entry of
\* groupedByDay the day's stops sorted by order
groupedByDay(stops) ==
    LET days == AscendingKeys({stops[i].day : i \in DOMAIN stops})
    IN  [g \in DOMAIN days |->
            [day |-> days[g],
             stops |-> SortByOrder(SelectSeq(stops, LAMBDA st : st.day = days[g]))]]

\* RouteTimeline renders the stops of the route of the page; the sort is on
\* the arrays built by reduce, the stops given are left as they are
DrawTimeline ==
    /\ Mounted /\ ~rendered /\ IsSome(route)
    /\ rendered' = TRUE
    /\ Step("timeline", groupedByDay(Get(route).stops))
    /\ UNCHANGED sideVars
    /\ UNCHANGED << dashVars, authVars, flowVars, session, attractions, route, messages,
                    isLoading, isLoadingRecommendations, isSavingPlan, isViewingsavedPlan,
                    showChat, showTimeline, net, planStore >>

NextTimeline ==
    \/ DrawTimeline

SpecTimeline == InitPolyline /\ [][NextTimeline]_vars

-----------------------------------------------------------------------------
(* The dashboard of a logged-in user: the plans are listed and deleted *)

\* the plans saved before the run: every plan id taken, each plan owned by A
\* or by B
OwnedStores ==
    { {[id |-> i, owner |-> o[i], route |-> SeedRoute] : i \in PlanIds} :
        o \in [PlanIds -> Users] }

InitDeletes ==
    /\ lsSession = None
    /\ \E u \in Users :
          /\ lsUser = Some(u) /\ user = Some(u)
          /\ lsToken = Some(TokenOf(u)) /\ token = Some(TokenOf(u))
    /\ authMounted = TRUE
    /\ page = "dashboard"
    /\ redirecting = FALSE
    /\ effectDue = TRUE
    /\ rendered = TRUE
    /\ session = None
    /\ attractions = << >>
    /\ route = None
    /\ messages = << >>
    /\ isLoading = FALSE
    /\ isLoadingRecommendations = TRUE
    /\ isSavingPlan = FALSE
    /\ isViewingsavedPlan = FALSE
    /\ showChat = TRUE
    /\ showTimeline = FALSE
    /\ net = EmptyBag
    /\ planStore \in OwnedStores
    /\ form = FormEmpty
    /\ sessionStore = {SeedSession}
    /\ modal = ModalEmpty
    /\ userStore = Users
    /\ userInterests = {}
    /\ lsUserInterests = {}
    /\ userPrefs = [u \in Users \cup Newcomers |-> {}]
    /\ plans = {}
    /\ plansLoading = TRUE
    /\ plansError = ""
    /\ last = [op |-> "init", arg |-> None]

NextDeletes ==
    \/ DashboardEffect
    \/ DashboardRender
    \/ \E r \in BagToSet(net) : PlansOk(r)
    \/ \E r \in BagToSet(net) : PlansFail(r)
    \/ ClickDelete
    \/ \E r \in BagToSet(net) : DeleteOk(r)
    \/ \E r \in BagToSet(net) : DeleteFail(r)

SpecDeletes == InitDeletes /\ [][NextDeletes]_vars

-----------------------------------------------------------------------------
(* The markers of a list of attractions are clicked *)

\* Attraction.id is optional: the id of an attraction that has none
NoId == 0

\* Attraction.name: the attractions of a list are named by their place in it
AttractionNames == 1..MaxShown

\* the lists of attractions of the data model: each attraction has a name of
\* its own, an id or none, the ids given are distinct
ShownAttractions ==
    { x \in UNION { [1..n -> [id : {NoId, 1, 2}, name : AttractionNames, selected : BOOLEAN]] :
                       n \in 1..MaxShown } :
        /\ \A i \in DOMAIN x : x[i].name = i
        /\ \A i, j \in DOMAIN x : (i # j /\ x[i].id # NoId) => x[i].id # x[j].id }

InitClick ==
    /\ lsSession = Some([sessionId |-> 0, isSavedPlan |-> FALSE])
    /\ lsToken = None /\ lsUser = None /\ user = None /\ token = None
    /\ authMounted = TRUE
    /\ page = "map"
    /\ redirecting = FALSE
    /\ effectDue = FALSE
    /\ rendered = TRUE
    /\ session = lsSession
    /\ attractions \in ShownAttractions
    /\ route = None
    /\ messages = << Msg("assistant", "found") >>
    /\ isLoading = FALSE
    /\ isLoadingRecommendations = FALSE
    /\ isSavingPlan = FALSE
    /\ isViewingsavedPlan = FALSE
    /\ showChat = TRUE
    /\ showTimeline = FALSE
    /\ net = EmptyBag
    /\ planStore = {}
    /\ plans = {}
    /\ plansLoading = TRUE
    /\ plansError = ""
    /\ form = FormEmpty
    /\ sessionStore = {SeedSession}
    /\ modal = ModalEmpty
    /\ userStore = Users
    /\ userInterests = {}
    /\ lsUserInterests = {}
    /\ userPrefs = [u \in Users \cup Newcomers |-> {}]
    /\ last = [op |-> "init", arg |-> None]

NextClick ==
    \/ ClickMarker
    \/ Render

SpecClick == InitClick /\ [][NextClick]_vars

-----------------------------------------------------------------------------
(* Logging out and opening the map page again *)

\* the user opens /map by its address once no request is pending: no page of
\* src links to it, so this is a full page load, after which the provider
\* mounts again together with MapPage
VisitMap ==
    /\ page \in {"home", "dashboard", "onboard"} /\ ~redirecting /\ net = EmptyBag
    /\ page' = "map"
    /\ effectDue' = TRUE
    /\ rendered' = TRUE
    /\ MapPageUnmounted
    /\ authMounted' = FALSE
    /\ user' = None
    /\ token' = None
    /\ userInterests' = {}
    /\ plans' = {}
    /\ plansLoading' = TRUE
    /\ plansError' = ""
    /\ form' = FormEmpty
    /\ modal' = ModalEmpty
    /\ Step("visitMap", None)
    /\ UNCHANGED << lsSession, lsToken, lsUser, redirecting, net, planStore, sessionStore,
                    userStore, lsUserInterests, userPrefs >>

InitLogout ==
    /\ lsSession \in {Some(x) : x \in StoredSessions}
    /\ \E u \in Users :
          /\ lsUser = Some(u) /\ user = Some(u)
          /\ lsToken = Some(TokenOf(u)) /\ token = Some(TokenOf(u))
    /\ authMounted = TRUE
    /\ page = "dashboard"
    /\ redirecting = FALSE
    /\ effectDue = TRUE
    /\ rendered = TRUE
    /\ session = None
    /\ attractions = << >>
    /\ route = None
    /\ messages = << >>
    /\ isLoading = FALSE
    /\ isLoadingRecommendations = TRUE
    /\ isSavingPlan = FALSE
    /\ isViewingsavedPlan = FALSE
    /\ showChat = TRUE
    /\ showTimeline = FALSE
    /\ net = EmptyBag
    /\ planStore \in SeedStores
    /\ form = FormEmpty
    /\ sessionStore = {SeedSession}
    /\ modal = ModalEmpty
    /\ userStore = Users
    /\ userInterests = {}
    /\ lsUserInterests = {}
    /\ userPrefs = [u \in Users \cup Newcomers |-> {}]
    /\ plans = {}
    /\ plansLoading = TRUE
    /\ plansError = ""
    /\ last = [op |-> "init", arg |-> None]

NextLogout ==
    \/ DashboardEffect
    \/ DashboardRender
    \/ \E r \in BagToSet(net) : PlansOk(r)
    \/ \E r \in BagToSet(net) : PlansFail(r)
    \/ handleLogout
    \/ NavigateHome
    \/ HomeEffect
    \/ NavigateDashboard
    \/ \E u \in Users : SubmitLogin(u)
    \/ \E r \in BagToSet(net) : LoginOk(r)
    \/ \E r \in BagToSet(net) : LoginFail(r, NoResponse)
    \/ VisitMap
    \/ MapPageEffect
    \/ AuthProviderEffect
    \/ Render
    \/ NavigateAway
    \/ ClickBack
    \/ \E r \in BagToSet(net), data \in RecommendOutputs : RecommendOk(r, data)
    \/ \E r \in BagToSet(net) : RecommendFail(r)
    \/ \E r \in BagToSet(net) : PlanOk(r)
    \/ \E r \in BagToSet(net) : PlanFail(r)
    \/ \E c \in Cities : setCity(c)
    \/ \E d \in {None} \cup {Some(x) : x \in Dates} : setStartDate(d)
    \/ \E d \in {None} \cup {Some(x) : x \in Dates} : setEndDate(d)
    \/ \E i \in InterestTags : toggleInterest(i)
    \/ SubmitOnboard
    \/ \E r \in BagToSet(net) : InitOk(r)
    \/ \E r \in BagToSet(net), detail \in InitErrorDetails : InitFail(r, detail)
    \/ NavigateMap

SpecLogout == InitLogout /\ [][NextLogout]_vars

-----------------------------------------------------------------------------
(* Properties *)

\* C1: when a refine request fails, the route held after the failure is the
\* route held just before it and the route the request was issued with; a
\* failed refinement never clears or alters the route
C1_FailedRefineKeepsRoute ==
    [][ last'.op = "refineFail"
            => /\ route' = route
               /\ route' = last'.arg.route
               /\ IsSome(route') ]_vars

\* a refinement that succeeded, then one that failed
C1_Witness ==
    /\ last.op = "refineFail"
    /\ IsSome(route)
    /\ Len(messages) = 6
    /\ messages[3].role = "user" /\ messages[4].content \in Summaries
    /\ messages[5].role = "user"

\* the stops of a route, as a set
StopsOf(r) == {r.stops[i] : i \in DOMAIN r.stops}

C3_TooFewSelectedNoRoute ==
    [][ (last'.op = "generate" /\ Len(Selected(attractions)) < 2)
            => /\ net' = net
               /\ route' = route
               /\ attractions' = attractions
               /\ isLoading' = isLoading
               /\ messages' = IF session = None THEN messages
                              ELSE Append(messages, Msg("assistant", "select at least 2")) ]_vars

\* the handler ran with exactly one attraction selected and no route held
C3_Witness ==
    /\ last.op = "generate"
    /\ Len(Selected(attractions)) = 1
    /\ route = None
    /\ net = EmptyBag
    /\ messages # << >> /\ messages[Len(messages)].content = "select at least 2"

\* the stops of day d in the order of their order field
DayStops(r, d) == SortByOrder(SelectSeq(r.stops, LAMBDA st : st.day = d))

\* per day, the stops sorted by order have non-decreasing startTime
PerDayTimeOrdered(r) ==
    \A d \in {st.day : st \in StopsOf(r)} :
        \A i \in 1..(Len(DayStops(r, d)) - 1) :
            DayStops(r, d)[i].startTime <= DayStops(r, d)[i + 1].startTime

\* C4: every route stored by handleGenerateRoute or handleSendMessage has, for
\* every day present, stops whose startTime does not decrease along order
C4_StoredRouteTimeOrdered ==
    last.op \in {"generateOk", "refineOk"}
        => /\ route = Some(last.arg.reply)
           /\ PerDayTimeOrdered(Get(route))

\* a refined route with two stops on one day, stored in an order that is not
\* the order of their order fields
C4_Witness ==
    /\ last.op = "refineOk"
    /\ LET st == Get(route).stops
       IN  /\ st[1].day = st[2].day
           /\ st[1].order > st[2].order
           /\ st[1].startTime >= st[2].startTime

\* C5: handleSavePlan issues a save request only when route, session, user and
\* token are all present, and the request carries that route and that token;
\* without a route it issues nothing and changes no planning state
C5_SaveOnlyWithRoute ==
    [][ last'.op = "save"
            => /\ net' # net
                    => /\ IsSome(route) /\ IsSome(session) /\ IsSome(user) /\ IsSome(token)
                       /\ \E q \in BagToSet(net') :
                             /\ net' = net (+) SetToBag({q})
                             /\ q.kind = "save" /\ q.route = route /\ q.token = token
               /\ route = None
                    => /\ net' = net
                       /\ UNCHANGED << session, attractions, route, messages, isLoading,
                                       isLoadingRecommendations, isSavingPlan,
                                       isViewingsavedPlan, showTimeline, planStore >> ]_vars

\* handleSavePlan ran for a logged-in user with a session and no route
C5_Witness ==
    /\ last.op = "save" /\ last.arg = "alert: please log in"
    /\ route = None
    /\ IsSome(session) /\ IsSome(user) /\ IsSome(token)
    /\ Len(Selected(attractions)) >= 2

\* C6: a refine request is issued only while a route and a session are held,
\* every outcome of a refine leaves a route held, and a chat message sent
\* while no route is held issues no request
C6_RefineOnlyWithRoute ==
    [][ /\ (last'.op = "send" /\ net' # net)
            => /\ IsSome(route) /\ IsSome(session)
               /\ \E q \in BagToSet(net') : q.kind = "refine" /\ IsSome(q.route)
        /\ (last'.op \in {"refineOk", "refineFail"}) => (IsSome(route) /\ IsSome(route'))
        /\ (last'.op = "send" /\ route = None) => (net' = net /\ route' = None) ]_vars

\* a chat message answered with guidance while no route was held, then a
\* route generated and a refinement fulfilled
C6_Witness ==
    /\ last.op = "refineOk"
    /\ IsSome(route)
    /\ IsSome(last.arg.req.route)
    /\ \E i \in DOMAIN messages : messages[i].content = "planning guidance"

\* C7: at most one generateRoute, refineRoute or savePlan request of the map
\* page is outstanding at any time
C7_AtMostOneOutstanding ==
    Copies(InFlight("route") \cup InFlight("refine") \cup InFlight("save")) <= 1

\* the 'Please try again' messages of the page
TryAgain == {"recommend failed, please try again", "generate failed, please try again"}

\* C8: a failed recommendation or route-generation request leaves the
\* attractions, their selected flags and the route as they were, shows a
\* 'try again' assistant message and ends the loading state of the request
C8_FailureKeepsPlanningState ==
    [][ (last'.op \in {"recommendFail", "generateFail"})
            => /\ attractions' = attractions
               /\ route' = route
               /\ messages' # << >>
               /\ messages'[Len(messages')].role = "assistant"
               /\ messages'[Len(messages')].content \in TryAgain
               /\ (last'.op = "recommendFail") => ~isLoadingRecommendations'
               /\ (last'.op = "generateFail") => ~isLoading'
               /\ page' = page ]_vars

\* a route generation failed while attractions were selected: the selection
\* is kept and the button is usable again
C8_Witness ==
    /\ last.op = "generateFail"
    /\ Len(Selected(attractions)) >= 2
    /\ route = None
    /\ ~isLoading
    /\ messages[Len(messages)].content \in TryAgain

\* the canned replies of the saved-plan view
SavedReplies == {"saved:cannot-modify", "saved:timing", "saved:costs", "saved:dining",
                 "saved:hotels", "saved:overview"}

\* C9: while a saved plan is viewed, a chat message issues no request, leaves
\* the route and the stored plans as they were, and appends the user's message
\* and one canned reply
C9_SavedPlanNotRefined ==
    [][ (last'.op = "send" /\ isViewingsavedPlan)
            => /\ net' = net
               /\ route' = route
               /\ planStore' = planStore
               /\ isViewingsavedPlan'
               /\ Len(messages') = Len(messages) + 2
               /\ SubSeq(messages', 1, Len(messages)) = messages
               /\ messages'[Len(messages) + 1] = Msg("user", last'.arg)
               /\ messages'[Len(messages) + 2].role = "assistant"
               /\ messages'[Len(messages) + 2].content \in SavedReplies ]_vars

\* a request to change the plan was sent in the saved-plan view
C9_Witness ==
    /\ last.op = "send"
    /\ isViewingsavedPlan
    /\ IsSome(route)
    /\ Includes(last.arg, "change")
    /\ messages[Len(messages)].content = "saved:cannot-modify"

\* the requests a step has added to the network
Issued(before, after) == {q \in BagToSet(after) : CopiesIn(q, after) > CopiesIn(q, before)}

\* C10: plans are isolated by owner: the dashboard of a logged-in user never
\* lists a plan of another user, a plan is fetched or deleted only with the
\* token of its owner, and every list, fetch and delete request carries the
\* token of the user logged in when it is issued
C10_PlanOwnershipIsolation ==
    [][ /\ (page' = "dashboard" /\ IsSome(user'))
            => \A p \in plans' : p.owner = Get(user')
        /\ (last'.op = "plansOk")
            => \A p \in plans' : p.owner = UserOfToken(Get(last'.arg.token))
        /\ planStore' \subseteq planStore
        /\ \A p \in planStore \ planStore' :
              /\ last'.op \in {"deleteOk", "detachedDeleteOk"}
              /\ p.id = last'.arg.sid
              /\ p.owner = UserOfToken(Get(last'.arg.token))
        /\ (last'.op = "planOk")
            => \E p \in planStore :
                  /\ p.id = last'.arg.sid
                  /\ p.owner = UserOfToken(Get(last'.arg.token))
                  /\ route' = Some(p.route)
        /\ \A q \in Issued(net, net') :
              q.kind \in {"plans", "plan", "delete"}
                  => /\ IsSome(user)
                     /\ q.token = token
                     /\ q.token = Some(TokenOf(Get(user))) ]_vars

\* B, whose dashboard lists B's own plan only, asked to delete the plan of A
\* and was refused; the plan of A is still stored
C10_Witness ==
    /\ last.op = "deleteFail"
    /\ user = Some("B")
    /\ last.arg.token = Some(TokenOf("B"))
    /\ \E p \in planStore : p.id = last.arg.sid /\ p.owner = "A"
    /\ plans # {}
    /\ \A p \in plans : p.owner = "B"

\* C11: a route saved with savePlan and fetched again by the plan's id comes
\* back with the same stops: the save request carries the route held, the
\* stored plan keeps the route of the request, stored plans never change, the
\* fetch stores the plan's route, and the render of the saved-plan view shows
\* it as fetched
C11_SaveFetchRoundTrip ==
    [][ /\ (last'.op = "save" /\ net' # net)
            => \E q \in Issued(net, net') : q.kind = "save" /\ q.route = route
        /\ (last'.op = "saveOk")
            => \E p \in planStore' \ planStore :
                  /\ planStore' = planStore \cup {p}
                  /\ p.route = Get(last'.arg.route)
                  /\ \A o \in planStore : o.id # p.id
        /\ planStore \subseteq planStore'
        /\ (last'.op = "planOk")
            => \E p \in planStore :
                  /\ p.id = last'.arg.sid
                  /\ route' = Some(p.route)
                  /\ StopsOf(Get(route')) = StopsOf(p.route)
        /\ (last'.op = "render" /\ isViewingsavedPlan) => route' = route ]_vars

\* a plan saved in the run (the store starts with one plan of A) was fetched
\* and rendered: the page shows the stored route, which is none of the seed
C11_Witness ==
    /\ last.op = "render"
    /\ isViewingsavedPlan
    /\ IsSome(session)
    /\ \E p \in planStore :
          /\ p.id = Get(session).sessionId
          /\ p.route # SeedRoute
          /\ route = Some(p.route)

\* the fields a session can be created from
FormFilled(f) ==
    /\ f.city # ""
    /\ IsSome(f.startDate) /\ IsSome(f.endDate)
    /\ Get(f.startDate) <= Get(f.endDate)
    /\ f.selectedInterests # {}

\* C12: a session is created, and 'wandermind_session' written by the
\* onboarding form, only by an accepted /api/init whose city is non-empty,
\* whose start date is not after its end date and whose interests are
\* non-empty; the form sends nothing else; a submit of an incomplete form
\* and a failed request leave the user on the form with an error shown and
\* no session created or stored
C12_SessionCreationValidated ==
    [][ /\ (sessionStore' # sessionStore \/ (OnOnboard /\ lsSession' # lsSession))
            => /\ last'.op = "initOk"
               /\ \A d \in last'.arg.seen :
                     d.city # "" /\ d.startDate <= d.endDate /\ d.interests # {}
               /\ \E x \in sessionStore' \ sessionStore :
                     /\ sessionStore' = sessionStore \cup {x}
                     /\ x.city # "" /\ x.startDate <= x.endDate /\ x.interests # {}
                     /\ lsSession' = Some([sessionId |-> x.id, isSavedPlan |-> FALSE])
        /\ (last'.op = "submit" /\ net' # net)
            => /\ FormFilled(form)
               /\ \A q \in Issued(net, net') :
                     /\ q.kind = "init"
                     /\ \A d \in q.seen :
                           d.city # "" /\ d.startDate <= d.endDate /\ d.interests # {}
        /\ (last'.op = "submit" /\ ~FormFilled(form))
            => /\ net' = net
               /\ form'.error # ""
               /\ page' = "onboard" /\ ~redirecting'
        /\ (last'.op = "initFail")
            => /\ form'.error # "" /\ ~form'.isLoading
               /\ page' = "onboard" /\ ~redirecting'
               /\ sessionStore' = sessionStore /\ lsSession' = lsSession ]_vars

\* after a session was created in the run, a form without interests was
\* submitted: the error is shown and nothing was sent
C12_Witness ==
    /\ last.op = "submit"
    /\ last.arg.city # "" /\ last.arg.selectedInterests = {}
    /\ form.error # ""
    /\ net = EmptyBag
    /\ OnOnboard
    /\ sessionStore # {SeedSession}

\* C13: the id of a created session differs from the id of every session
\* created before it (no session is ever removed), it is the id stored under
\* 'wandermind_session', and every recommend request sent for it names a
\* session the store holds
C13_SessionIdsUniqueAndFound ==
    [][ /\ sessionStore \subseteq sessionStore'
        /\ (last'.op = "initOk")
            => \E x \in sessionStore' \ sessionStore :
                  /\ \A y \in sessionStore : y.id # x.id
                  /\ lsSession' = Some([sessionId |-> x.id, isSavedPlan |-> FALSE])
        /\ \A q \in BagToSet(net') :
              q.kind = "recommend" => \E x \in sessionStore' : x.id = q.sid
        /\ (last'.op = "effect" /\ IsSome(lsSession))
            => \E q \in Issued(net, net') :
                  q.kind = "recommend" /\ q.sid = Get(lsSession).sessionId ]_vars

\* the recommendations of the last of MaxSessions sessions created in the run
\* were answered
C13_Witness ==
    /\ last.op = "recommendOk"
    /\ Cardinality(sessionStore) = MaxSessions + 1
    /\ IsSome(lsSession)
    /\ last.arg.sid = Get(lsSession).sessionId
    /\ last.arg.sid # SeedSession.id
    /\ Cardinality({x.id : x \in sessionStore}) = MaxSessions + 1

\* the steps in which a request of a user action is found to have failed
FailureSteps ==
    {"recommendFail", "generateFail", "refineFail", "saveFail", "deleteFail", "loginFail"}

\* C14: no request is retried: a step issues at most one request, a step that
\* handles a failure issues none and (for the map page's gateway calls) shows
\* an assistant message, and the recommendations of one visit of the map page
\* are requested once: when the request is issued no other one is
\* outstanding and none has been answered in this visit
C14_NoRetries ==
    [][ /\ Cardinality(Issued(net, net')) <= 1
        /\ \A q \in Issued(net, net') : CopiesIn(q, net') = CopiesIn(q, net) + 1
        /\ (last'.op \in FailureSteps) => Issued(net, net') = {}
        /\ (last'.op \in {"recommendFail", "generateFail", "refineFail"})
            => /\ messages' # << >>
               /\ messages'[Len(messages')].role = "assistant"
        /\ (\E q \in Issued(net, net') : q.kind = "recommend")
            => /\ InFlight("recommend") = {}
               /\ messages = << >> ]_vars

\* the first of loc[1], loc[0] (indexed from 0) that is given and not empty,
\* 'field' when there is none
ExpectedField(e) ==
    LET cands == << IF Len(e.loc) >= 2 THEN e.loc[2] ELSE "",
                    IF Len(e.loc) >= 1 THEN e.loc[1] ELSE "",
                    "field" >>
        k == CHOOSE i \in 1..3 : cands[i] # "" /\ \A j \in 1..(i - 1) : cands[j] = ""
    IN  cands[k]

\* C15: the message a failed login or signup throws: for a list detail the
\* entries in order, each '<field>: <msg>' with field = loc[1], else loc[0],
\* else 'field', joined by ', '; a (non-empty) string detail as it is; without
\* detail error.message, else 'Login failed' / 'Signup failed'; the modal
\* shows the message, and user, token and localStorage stay as they were
C15_AuthErrorAggregation ==
    [][ (last'.op \in {"loginFail", "signupFail"})
            => LET e == last'.arg.error
                   d == e.detail
                   m == last'.arg.thrown
                   n == Len(d.list)
                   fallback == IF last'.op = "loginFail" THEN "Login failed"
                               ELSE "Signup failed"
               IN  /\ (d.kind = "list")
                       => /\ Len(m) = (IF n = 0 THEN 0 ELSE 4 * n - 1)
                          /\ \A i \in 1..n :
                                /\ m[4 * i - 3] = ExpectedField(d.list[i])
                                /\ m[4 * i - 2] = ": "
                                /\ m[4 * i - 1] = d.list[i].msg
                                /\ (i < n) => m[4 * i] = ", "
                   /\ (d.kind = "str" /\ d.str # "") => m = << d.str >>
                   /\ (d.kind = "none" \/ (d.kind = "str" /\ d.str = ""))
                       => m = << IF e.message # "" THEN e.message ELSE fallback >>
                   /\ modal'.error = (IF m = << >> THEN << "Error" >> ELSE m)
                   /\ ~modal'.isLoading
                   /\ user' = user /\ token' = token
                   /\ lsUser' = lsUser /\ lsToken' = lsToken /\ lsSession' = lsSession ]_vars

\* a login was rejected with two entries, the first with an empty loc[1], the
\* second with loc = ['body', 'email']
C15_Witness ==
    /\ last.op = "loginFail"
    /\ last.arg.error.detail.kind = "list"
    /\ Len(last.arg.error.detail.list) = 2
    /\ last.arg.error.detail.list[1].loc = << "body", "" >>
    /\ last.arg.error.detail.list[2].loc = << "body", "email" >>
    /\ modal.error = << "body", ": ", "invalid", ", ", "email", ": ", "invalid" >>
    /\ user = None /\ lsUser = None

\* C16: a signup whose password is shorter than 6 characters logs nobody in:
\* the form does not send it, and a signup is accepted, the user registered
\* and logged in, only with a password of at least 6 characters
C16_ShortPasswordNeverLogsIn ==
    [][ /\ (last'.op = "signupBlocked")
            => /\ net' = net
               /\ user' = user /\ token' = token
               /\ lsUser' = lsUser /\ lsToken' = lsToken
               /\ userStore' = userStore
        /\ (last'.op \in {"signup", "signupBlocked"} /\ last'.arg.password < 6)
            => net' = net /\ user' = None
        /\ \A q \in Issued(net, net') :
              q.kind = "signup" => \A d \in q.seen : d.password >= 6
        /\ (last'.op = "signupOk")
            => \A d \in last'.arg.seen : d.password >= 6
        /\ (userStore' # userStore) => last'.op = "signupOk"
        /\ (IsSome(user') /\ user' # user) => last'.op \in {"signupOk", "loginOk"} ]_vars

\* a signup with a password of 5 characters was tried and nobody is logged in
C16_Witness ==
    /\ last.op = "signupBlocked"
    /\ last.arg.password = 5 /\ last.arg.name = "Ann" /\ last.arg.user \in Newcomers
    /\ user = None /\ token = None /\ lsUser = None
    /\ net = EmptyBag
    /\ userStore = Users

\* C17: an accepted updatePreferences(interests) leaves user.interests equal
\* to exactly the given interests, with the same user and interests stored
\* under 'wandermind_user'; a call without token throws
\* 'Not authenticated' and sends nothing; a call with token sends one request
\* with the given interests; a rejected request throws and leaves user and
\* localStorage as they were
C17_UpdatePreferencesReplaces ==
    [][ /\ (last'.op = "prefsOk")
            => \A d \in last'.arg.seen :
                  /\ IsSome(d.user)
                  /\ user' = d.user
                  /\ userInterests' = d.interests
                  /\ lsUser' = user'
                  /\ lsUserInterests' = d.interests
                  /\ lsToken' = lsToken /\ token' = token
        /\ (last'.op = "updatePreferences" /\ token = None)
            => /\ last'.arg.thrown = Some("Not authenticated")
               /\ net' = net
               /\ user' = user /\ userInterests' = userInterests
               /\ lsUser' = lsUser /\ lsUserInterests' = lsUserInterests
        /\ (last'.op = "updatePreferences" /\ token # None)
            => /\ last'.arg.thrown = None
               /\ Cardinality(Issued(net, net')) = 1
               /\ \A q \in Issued(net, net') :
                     /\ q.kind = "prefs" /\ q.token = token
                     /\ \A d \in q.seen : d.interests = last'.arg.interests
        /\ (last'.op = "prefsFail")
            => /\ IsSome(last'.arg.thrown)
               /\ user' = user /\ userInterests' = userInterests /\ token' = token
               /\ lsUser' = lsUser /\ lsUserInterests' = lsUserInterests
               /\ lsToken' = lsToken /\ lsSession' = lsSession ]_vars

\* the user had the interest Beach; updatePreferences(['Museums']) was
\* accepted: Museums is the only interest of the user, in state and stored
C17_Witness ==
    /\ last.op = "prefsOk"
    /\ \E d \in last.arg.seen : d.interests = {"Museums"}
    /\ user = Some("A") /\ lsUser = Some("A")
    /\ userInterests = {"Museums"} /\ lsUserInterests = {"Museums"}
    /\ IsSome(token)

\* C18: toggling the chat panel cancels nothing: the toggle leaves the pending
\* requests, isLoading, the route and the messages as they are, and the
\* answer to a refine request is handled whether the panel is shown or not:
\* a fulfilled one replaces the route and a rejected one leaves it, both
\* append one assistant message and end isLoading
C18_ToggleChatCancelsNothing ==
    [][ /\ (last'.op = "toggleChat")
            => /\ showChat' = ~showChat
               /\ net' = net
               /\ isLoading' = isLoading
               /\ route' = route /\ messages' = messages
        /\ (last'.op = "refineOk")
            => /\ route' = Some(last'.arg.reply)
               /\ Len(messages') = Len(messages) + 1
               /\ SubSeq(messages', 1, Len(messages)) = messages
               /\ messages'[Len(messages')].role = "assistant"
               /\ ~isLoading'
               /\ showChat' = showChat
        /\ (last'.op = "refineFail")
            => /\ route' = route
               /\ Len(messages') = Len(messages) + 1
               /\ SubSeq(messages', 1, Len(messages)) = messages
               /\ messages'[Len(messages')].role = "assistant"
               /\ ~isLoading'
               /\ showChat' = showChat
        /\ (InFlight("refine") # {} /\ net' = net) => isLoading' ]_vars

\* the panel was hidden while a refine request was pending and the answer
\* arrived with the panel still hidden: the route is the answer's route
C18_Witness ==
    /\ last.op = "refineOk"
    /\ ~showChat
    /\ route = Some(last.arg.reply)
    /\ last.arg.req.route # route
    /\ ~isLoading
    /\ messages[Len(messages)].content = last.arg.reply.summary

\* the stop of the route held whose attraction is at a point
StopAt(point) == CHOOSE x \in StopsOf(Get(route)) : Coordinates(x.att) = Some(point)

\* C19: the positions of the polyline are those of the stops that have
\* coordinates, each once, in the order of their day and, within a day, of
\* their order number
C19_PolylineByDayThenOrder ==
    (last.op = "polyline")
        => /\ {last.arg[i] : i \in DOMAIN last.arg}
                = {Get(Coordinates(x.att)) :
                       x \in {y \in StopsOf(Get(route)) : Coordinates(y.att) # None}}
           /\ \A i, j \in DOMAIN last.arg :
                 i < j => /\ last.arg[i] # last.arg[j]
                          /\ \/ StopAt(last.arg[i]).day < StopAt(last.arg[j]).day
                             \/ /\ StopAt(last.arg[i]).day = StopAt(last.arg[j]).day
                                /\ StopAt(last.arg[i]).order <= StopAt(last.arg[j]).order

\* C20: each loading flag is true while a request of its kind is outstanding:
\* isLoading for generateRoute and refine, isSavingPlan for save,
\* isLoadingRecommendations for the load of the recommendations
C20_LoadingFlagsTrackRequests ==
    /\ (InFlight("route") \cup InFlight("refine") # {}) => isLoading
    /\ (InFlight("save") # {}) => isSavingPlan
    /\ (InFlight("recommend") # {}) => isLoadingRecommendations

\* the stops a timeline shows, over all its day groups
ShownIn(groups, g) == {groups[g].stops[i] : i \in DOMAIN groups[g].stops}

RECURSIVE ShownCount(_, _)
ShownCount(groups, n) ==
    IF n = 0 THEN 0 ELSE Len(groups[n].stops) + ShownCount(groups, n - 1)

\* C21: the timeline groups the stops by day as a partition: every stop of the
\* route is in exactly one day group, the group of its own day, within each
\* group the order numbers ascend, and as many stops are shown as the route has
C21_TimelinePartitionsByDay ==
    (last.op = "timeline")
        => /\ \A x \in StopsOf(Get(route)) :
                 /\ \E g \in DOMAIN last.arg : x \in ShownIn(last.arg, g)
                 /\ \A g \in DOMAIN last.arg :
                       x \in ShownIn(last.arg, g) => last.arg[g].day = x.day
           /\ \A g, h \in DOMAIN last.arg : g # h => last.arg[g].day # last.arg[h].day
           /\ \A g \in DOMAIN last.arg :
                 \A i, j \in DOMAIN last.arg[g].stops :
                    i < j => last.arg[g].stops[i].order <= last.arg[g].stops[j].order
           /\ ShownCount(last.arg, Len(last.arg)) = Len(Get(route).stops)

\* a two-day route whose stops are listed out of order is drawn
C21_Witness ==
    /\ last.op = "timeline"
    /\ Len(last.arg) = 2
    /\ Len(Get(route).stops) = 3
    /\ Get(route).stops[1].day = 2
    /\ Get(route).stops[2].order > Get(route).stops[3].order
    /\ Get(route).stops[2].day = Get(route).stops[3].day

\* C22: once the provider has mounted, user is null exactly when token is
\* null, and localStorage holds 'wandermind_user' / 'wandermind_token' exactly
\* when user / token are set
C22_AuthStateConsistent ==
    authMounted
        => /\ (user = None) <=> (token = None)
           /\ (lsUser = None) <=> (user = None)
           /\ (lsToken = None) <=> (token = None)

\* C23: the plans the dashboard shows are the plans loaded less the plans
\* whose delete request succeeded. Only a successful delete changes the
\* server's plans after the load, so the list shown is the server's list of
\* the user's plans
C23_ListIsLoadedMinusDeleted ==
    (OnDashboard /\ IsSome(token) /\ ~plansLoading /\ plansError = "")
        => plans = ServerListPlans(planStore, Get(token))

\* C24: the map page was opened by a logged-in user with a stored session
\* marked isSavedPlan; once the last response has arrived and the plan was
\* fetched, the page is in the saved-plan view: the route is the plan's, the
\* attractions are those of its stops, all selected, isViewingsavedPlan is
\* true and the first message is the welcome-back message
C24_SavedPlanViewAtRest ==
    ( /\ Mounted /\ IsSome(lsSession) /\ IsSome(lsUser) /\ IsSome(lsToken)
      /\ Get(lsSession).isSavedPlan
      /\ net = EmptyBag
      /\ last.op \in {"planOk", "recommendOk", "recommendFail"}
      /\ IsSome(route) )
        => /\ \E p \in planStore :
                 /\ p.id = Get(lsSession).sessionId
                 /\ p.owner = Get(lsUser)
                 /\ route = Some(p.route)
                 /\ attractions = [i \in DOMAIN p.route.stops |->
                                      [id |-> p.route.stops[i].att, selected |-> TRUE]]
           /\ isViewingsavedPlan
           /\ ~isLoadingRecommendations
           /\ messages # << >>
           /\ messages[1] = Msg("assistant", "welcome back")

\* C25: with a stored session that is no saved plan, a recommendation request
\* is issued only while none is outstanding and no attractions are displayed,
\* and while no route is held the attractions displayed change only through a
\* click on a marker
C25_OneLoadSelectionsKept ==
    [][ (Mounted /\ IsSome(lsSession) /\ ~Get(lsSession).isSavedPlan)
            => /\ (\E q \in Issued(net, net') : q.kind = "recommend")
                    => (InFlight("recommend") = {} /\ attractions = << >>)
               /\ (attractions # << >> /\ route = None /\ attractions' # attractions)
                    => last'.op = "click" ]_vars

\* C26: the chat history of the map page is append-only: at every step of the
\* mounted page the messages shown before are a prefix of the messages shown
\* after
C26_ChatAppendOnly ==
    [][ (Mounted /\ Mounted')
            => /\ Len(messages) <= Len(messages')
               /\ SubSeq(messages', 1, Len(messages)) = messages ]_vars

\* C27: a click on an attraction flips the selected flag of that attraction
\* and of no other, whether the attractions of the list have ids or not
C27_ClickTogglesOnlyClicked ==
    [][ (last'.op = "click")
            => /\ Len(attractions') = Len(attractions)
               /\ \A i \in DOMAIN attractions :
                     /\ attractions'[i].id = attractions[i].id
                     /\ attractions'[i].name = attractions[i].name
                     /\ (attractions'[i].selected # attractions[i].selected)
                           <=> (attractions[i] = last'.arg) ]_vars

\* C28: rendering is read-only: a render of MapComponent or RouteTimeline
\* leaves the route held, the sequence of its stops included, as it was
C28_RenderLeavesRoute ==
    [][ (last'.op \in {"render", "polyline", "timeline"}) => route' = route ]_vars

\* the refine request a continuation of handleSendMessage has answered
AnsweredRefine(l) == IF l.op = "refineOk" THEN l.arg.req ELSE l.arg

\* C29: every chat message sent while a session exists gets exactly one
\* reply: handleSendMessage appends the user's message, and then one assistant
\* message, either at once (saved-plan view, no route) or, when it has issued
\* its one refine request, in the one continuation that answers the request;
\* with no session it appends nothing and issues nothing
C29_OneReplyPerMessage ==
    [][ /\ (last'.op = "send" /\ session = None)
            => (messages' = messages /\ net' = net)
        /\ (last'.op = "send" /\ session # None /\ net' = net)
            => /\ Len(messages') = Len(messages) + 2
               /\ SubSeq(messages', 1, Len(messages)) = messages
               /\ messages'[Len(messages) + 1] = Msg("user", last'.arg)
               /\ messages'[Len(messages) + 2].role = "assistant"
        /\ (last'.op = "send" /\ session # None /\ net' # net)
            => /\ messages' = Append(messages, Msg("user", last'.arg))
               /\ \E q \in BagToSet(net') :
                     /\ q.kind = "refine" /\ q.text = last'.arg
                     /\ net' = Send(q)
        /\ (last'.op \in {"refineOk", "refineFail"})
            => /\ Len(messages') = Len(messages) + 1
               /\ SubSeq(messages', 1, Len(messages)) = messages
               /\ messages'[Len(messages')].role = "assistant"
               /\ AnsweredRefine(last') \in BagToSet(net)
               /\ net' = Done(AnsweredRefine(last')) ]_vars

\* a refinement failed: the user's message is followed by the one error reply
C29_Witness ==
    /\ last.op = "refineFail"
    /\ Len(messages) >= 2
    /\ messages[Len(messages) - 1] = Msg("user", last.arg.text)
    /\ messages[Len(messages)] = Msg("assistant", "refine failed, please try again")
    /\ InFlight("refine") = {}

\* the requests of the planning flow
PlanningKinds == {"recommend", "route", "refine", "plan"}

\* C30: logout ends the planning flow as well as the login: it leaves user and
\* token null and none of 'wandermind_token', 'wandermind_user' and
\* 'wandermind_session' stored; while no session is stored the effect of the
\* map page redirects to onboarding without a request, no request of the
\* planning flow is issued, and only a session created on the onboarding page
\* is stored again
C30_LogoutEndsPlanning ==
    [][ /\ (last'.op = "logout")
            => /\ user' = None /\ token' = None
               /\ lsToken' = None /\ lsUser' = None /\ lsSession' = None
        /\ (lsSession = None /\ last'.op = "effect")
            => (redirecting' /\ net' = net /\ session' = None)
        /\ (lsSession = None /\ lsSession' = None)
            => \A q \in Issued(net, net') : q.kind \notin PlanningKinds
        /\ (lsSession = None /\ lsSession' # None)
            => last'.op = "initOk" ]_vars

\* after a logout the map page was opened and its effect redirected to
\* onboarding: nothing is stored and no request is pending
C30_Witness ==
    /\ last.op = "effect"
    /\ page = "map"
    /\ redirecting
    /\ lsSession = None /\ lsToken = None /\ lsUser = None
    /\ user = None /\ token = None
    /\ session = None
    /\ net = EmptyBag

====
